---- MODULE Spec2Model ----
(***************************************************************************)
(* AskBeeves background service worker (exact block-list profile).         *)
(*                                                                         *)
(* The model covers the persisted records (sync status, block cache, auth) *)
(* kept in chrome.storage.local, the performFullSync pass with one action  *)
(* per storage or network operation it awaits, the message handlers that   *)
(* start passes or answer queries, the clock and the termination of the    *)
(* service worker by the browser.                                          *)
(*                                                                         *)
(* Time is counted in units of 5 minutes and sizes in abstract size units, so  *)
(* the numeric program constants are scaled down (see each definition).    *)
(***************************************************************************)
EXTENDS Integers, Sequences, FiniteSets, TLC

VARIABLES
    status,   \* storage.local["syncStatus"] (NoStatus when never written)
    cache,    \* storage.local["blockCache"] (NoCache when never written)
    auth,     \* storage.local["authToken"].did (NoAuth when never written)
    now,      \* Date.now()
    inv,      \* the performFullSync invocations in flight, one record each
    resp,     \* the GET_BLOCKING_INFO response sent by the latest step, if any
    kills,    \* how often the browser has terminated the service worker
    starts,   \* how many performFullSync invocations have been started
    hist,     \* the last pass that completed without a failure, with the
              \* answers its cache gave (recorded under RepeatSpec only)
    bloom,    \* bloom build: a filter and the items added to it
    query     \* a call in flight outside a pass: a message handler or an
              \* updateSyncStatus call

vars ==
    <<status, cache, auth, now, inv, resp, kills, starts, hist, bloom, query>>

----------------------------------------------------------------------------
(* Bounds of the model *)

MaxNow == 1
MaxKills == 1
MaxStarts == 2

Procs == {1, 2}
Dids == {"X", "Y"}
Users == {"u1", "u2", "u3", "u4", "u5"}
FollowLists == {<< >>, <<"u1">>, <<"u1", "u2", "u3">>}
LongFollowLists == {<<"u1", "u2", "u3", "u4", "u5">>}
LiveFollowLists == {<< >>, <<"u1", "u2", "u3">>}
ShortFollowLists == {<< >>, <<"u1">>}
BlockLists == {<< >>, <<"p1">>}
Profiles == {"p1"}

----------------------------------------------------------------------------
(* Program constants *)

\* 5 * 60 * 1000 ms, in units of 5 minutes
STALE_LOCK_TIMEOUT_MS == 1
\* users fetched concurrently per chunk (5 in the source, scaled)
RATE_LIMIT_CONCURRENT == 2
\* chunks between two incremental saves (10 in the source, scaled)
SAVE_INTERVAL == 2
\* 8 MiB in the source, in abstract size units
MAX_CACHE_SIZE_BYTES == 12

NoStatus == [absent |-> "syncStatus"]
NoCache == [absent |-> "blockCache"]
NoAuth == "none"
NoResp == [absent |-> "response"]
NoHist == [absent |-> "pass"]
NoBloom == [absent |-> "filter"]
NoQuery == [absent |-> "query"]

----------------------------------------------------------------------------
(* storage.ts *)

\* getSyncStatus: the stored status, or the default record when none is stored
DefaultStatus ==
    [totalFollows |-> 0, syncedFollows |-> 0, lastSync |-> 0,
     isRunning |-> FALSE, lastUpdated |-> 0, errors |-> << >>]

GetSyncStatus(stored) == IF stored = NoStatus THEN DefaultStatus ELSE stored

\* a merge in which a lastUpdated of the partial status wins over the clock
UpdateKeepsGivenStamp(current, partial, t) ==
    LET Merged(f) == IF f \in DOMAIN partial THEN partial[f] ELSE current[f]
    IN  [totalFollows |-> Merged("totalFollows"),
         syncedFollows |-> Merged("syncedFollows"),
         lastSync |-> Merged("lastSync"),
         isRunning |-> Merged("isRunning"),
         lastUpdated |-> IF "lastUpdated" \in DOMAIN partial
                         THEN partial.lastUpdated ELSE t,
         errors |-> Merged("errors")]

\* updateSyncStatus: the record it stores, {...current, ...status,
\* lastUpdated: Date.now()}, from the status read and the clock at the write
UpdateSyncStatus(current, partial, t) ==
    LET Merged(f) == IF f \in DOMAIN partial THEN partial[f] ELSE current[f]
    IN  [totalFollows |-> Merged("totalFollows"),
         syncedFollows |-> Merged("syncedFollows"),
         lastSync |-> Merged("lastSync"),
         isRunning |-> Merged("isRunning"),
         lastUpdated |-> t,
         errors |-> Merged("errors")]

\* createEmptyCache (a followed user is modelled by its did, an entry by the
\* did, the blocks and the size of the copied profile fields; lastFullSync,
\* and lastSynced of the entries, are written but never read and left out)
CreateEmptyCache(did) ==
    [followedUsers |-> << >>, userBlockCaches |-> << >>,
     currentUserDid |-> did]

\* a membership test that looks at the first 20 entries only
HasBlockInPrefix(blocks, profileDid) ==
    \E k \in 1..Len(blocks) : k <= 20 /\ blocks[k] = profileDid

\* the membership test of getBlockers: Set lookup above 20 entries,
\* Array.includes otherwise
HasBlock(blocks, profileDid) ==
    IF Len(blocks) > 20
    THEN profileDid \in {blocks[k] : k \in 1..Len(blocks)}
    ELSE \E k \in 1..Len(blocks) : blocks[k] = profileDid

\* getBlockers: the followed users, in followedUsers order, whose cached
\* block list holds profileDid
GetBlockers(profileDid, c) ==
    IF c = NoCache THEN << >>
    ELSE SelectSeq(c.followedUsers,
            LAMBDA u : /\ u \in DOMAIN c.userBlockCaches
                       /\ Len(c.userBlockCaches[u].blocks) > 0
                       /\ HasBlock(c.userBlockCaches[u].blocks, profileDid))

\* a lookup that takes the users with a cache entry for the followed users
LookupAmongCached(profileDid, profileBlocks, c) ==
    IF c = NoCache THEN [blockedBy |-> << >>, blocking |-> << >>]
    ELSE [blockedBy |-> GetBlockers(profileDid, c),
          blocking |-> SelectSeq(profileBlocks,
              LAMBDA d : d \in DOMAIN c.userBlockCaches)]

\* a lookup that takes a missing cache for an error
LookupFailsWithoutCache(profileDid, profileBlocks, c) ==
    IF c = NoCache THEN [error |-> "no cache"]
    ELSE [blockedBy |-> GetBlockers(profileDid, c),
          blocking |-> SelectSeq(profileBlocks,
              LAMBDA d : \E k \in 1..Len(c.followedUsers) : c.followedUsers[k] = d)]

\* lookupBlockingInfo
LookupBlockingInfo(profileDid, profileBlocks, c) ==
    IF c = NoCache THEN [blockedBy |-> << >>, blocking |-> << >>]
    ELSE [blockedBy |-> GetBlockers(profileDid, c),
          blocking |-> SelectSeq(profileBlocks,
              LAMBDA d : \E k \in 1..Len(c.followedUsers) : c.followedUsers[k] = d)]

----------------------------------------------------------------------------
(* background.ts: size estimate and eviction *)

\* Size units of the JSON text of a cache: the fixed part, one follow record,
\* the key of a block entry, the fixed part of an entry, one blocked DID
CacheBaseSize == 2
FollowSize == 1
EntryKeySize == 1
EntryBaseSize == 2
BlockSize == 2

\* Size units of the handle, displayName and avatar of a followed user,
\* which an entry copies: u1 has a long profile
ProfileSize(user) == IF user = "u1" THEN 3 ELSE 0

\* estimateObjectSize of one UserBlockCache
EntrySize(e) == EntryBaseSize + e.meta + BlockSize * Len(e.blocks)

RECURSIVE SumEntrySizes(_, _)
SumEntrySizes(ubc, dids) ==
    IF dids = {} THEN 0
    ELSE LET d == CHOOSE x \in dids : TRUE
         IN  EntryKeySize + EntrySize(ubc[d]) + SumEntrySizes(ubc, dids \ {d})

\* estimateObjectSize of a BlockCacheData
EstimateObjectSize(c) ==
    CacheBaseSize + FollowSize * Len(c.followedUsers)
        + SumEntrySizes(c.userBlockCaches, DOMAIN c.userBlockCaches)

RemoveKey(f, d) == [x \in DOMAIN f \ {d} |-> f[x]]

\* the orders Array.sort can give the entries: block count descending, ties
\* in the insertion order of the keys, which the model does not record
SortedByBlockCount(ubc) ==
    {s \in [1..Cardinality(DOMAIN ubc) -> DOMAIN ubc] :
        /\ \A a, b \in DOMAIN s : a # b => s[a] # s[b]
        /\ \A a, b \in DOMAIN s :
              a < b => Len(ubc[s[a]].blocks) >= Len(ubc[s[b]].blocks)}

\* the loop of pruneCache from position k of the ranking
RECURSIVE PruneLoop(_, _, _, _)
PruneLoop(c, order, k, currentSize) ==
    IF k > Len(order) \/ currentSize <= MAX_CACHE_SIZE_BYTES THEN c
    ELSE PruneLoop(
            [c EXCEPT !.userBlockCaches = RemoveKey(@, order[k])],
            order, k + 1,
            currentSize - EntrySize(c.userBlockCaches[order[k]]))

\* pruneCache: the caches it can leave
PruneCache(c) ==
    {PruneLoop(c, order, 1, EstimateObjectSize(c)) :
        order \in SortedByBlockCount(c.userBlockCaches)}

\* the proactive pruning test of performFullSync: size > MAX * 0.9
NearLimit(c) == 10 * EstimateObjectSize(c) > 9 * MAX_CACHE_SIZE_BYTES

----------------------------------------------------------------------------
(* api.ts *)

\* chunk(follows, RATE_LIMIT_CONCURRENT): the number of chunks and the users
\* of chunk k (counted from 0)
NumChunks(follows) ==
    (Len(follows) + RATE_LIMIT_CONCURRENT - 1) \div RATE_LIMIT_CONCURRENT

\* chunks that overlap by one user
ChunkUsersOverlapping(follows, k) ==
    {follows[n] : n \in {m \in 1..Len(follows) :
        /\ m > k * RATE_LIMIT_CONCURRENT
        /\ m <= (k + 1) * RATE_LIMIT_CONCURRENT + 1}}

ChunkUsers(follows, k) ==
    {follows[n] : n \in {m \in 1..Len(follows) :
        /\ m > k * RATE_LIMIT_CONCURRENT
        /\ m <= (k + 1) * RATE_LIMIT_CONCURRENT}}

----------------------------------------------------------------------------
(* background.ts: performFullSync *)

\* a lock test with a timeout of zero: every lock found is stale
LockStaleAtOnce(st, t) == st.isRunning /\ t - st.lastUpdated < 0

\* a lock test that still takes a heartbeat of exactly the timeout as fresh
LockFreshAtTimeout(st, t) ==
    st.isRunning /\ t - st.lastUpdated <= STALE_LOCK_TIMEOUT_MS

\* a lock test without the timeout: a lock that is set never ages
LockNeverStale(st, t) == st.isRunning

\* the lock test: isRunning and a heartbeat younger than the timeout
LockIsFresh(st, t) == st.isRunning /\ t - st.lastUpdated < STALE_LOCK_TIMEOUT_MS

\* updateSyncStatus({isRunning: false}) of the stale-lock reset
ResetStatus(cur, t) == UpdateSyncStatus(cur, [isRunning |-> FALSE], t)

\* updateSyncStatus({isRunning: true, errors: [], syncedFollows: 0})
LockStatus(cur, t) ==
    UpdateSyncStatus(cur,
        [isRunning |-> TRUE, errors |-> << >>, syncedFollows |-> 0], t)

\* updateSyncStatus({syncedFollows, totalFollows}) after one user's fetch
ProgressStatus(cur, syncedCount, total, t) ==
    UpdateSyncStatus(cur,
        [syncedFollows |-> syncedCount, totalFollows |-> total], t)

\* the updateSyncStatus of the finalization
FinalStatus(cur, syncedCount, total, errors, t) ==
    UpdateSyncStatus(cur,
        [isRunning |-> FALSE, lastSync |-> t, syncedFollows |-> syncedCount,
         totalFollows |-> total, errors |-> errors], t)

\* a catch block that records the error and leaves isRunning as it is
FailedStatusKeepsLock(cur, errorMsg, t) ==
    [cur EXCEPT !.errors = <<errorMsg>>, !.lastUpdated = t]

\* a catch block that clears the lock and leaves the errors as they are
FailedStatusDropsMessage(cur, errorMsg, t) ==
    UpdateSyncStatus(cur, [isRunning |-> FALSE], t)

\* a catch block that takes every exception for a non-Error
FailedStatusUnknownError(cur, errorMsg, t) ==
    UpdateSyncStatus(cur, [isRunning |-> FALSE,
                           errors |-> <<"Unknown error">>], t)

\* the updateSyncStatus of the catch block
FailedStatus(cur, errorMsg, t) ==
    UpdateSyncStatus(cur, [isRunning |-> FALSE, errors |-> <<errorMsg>>], t)

\* a load that takes the stored cache whoever owns it
LoadCacheOfAnyone(stored, did) ==
    IF stored = NoCache THEN CreateEmptyCache(did) ELSE stored

\* the cache a pass works on: the stored one, or an empty one when none is
\* stored or the stored one belongs to another identity
LoadCache(stored, did) ==
    IF stored = NoCache \/ stored.currentUserDid # did
    THEN CreateEmptyCache(did) ELSE stored

\* a per-user store that starts the entries over with each user
StoreOnlyUser(c, user, blocks) ==
    IF Len(blocks) > 0
    THEN [c EXCEPT !.userBlockCaches =
            (user :> [did |-> user, blocks |-> blocks,
                      meta |-> ProfileSize(user)])]
    ELSE c

\* the per-user store: an entry is written only for a non-empty block list
StoreUserBlocks(c, user, blocks) ==
    IF Len(blocks) > 0
    THEN [c EXCEPT !.userBlockCaches =
            (user :> [did |-> user, blocks |-> blocks,
                      meta |-> ProfileSize(user)]) @@ RemoveKey(@, user)]
    ELSE c

\* a per-user catch that drops the error
RecordErrorDropped(errors, user) == errors

\* the per-user catch: the error recorded for a failed fetch
RecordError(errors, user) == Append(errors, user)

\* a save test that saves after the last chunk only
SaveAtEndOnly(chunkIndex, n) == chunkIndex = n - 1

\* the incremental save test after chunk chunkIndex of n chunks
SaveDue(chunkIndex, n) ==
    (chunkIndex + 1) % SAVE_INTERVAL = 0 \/ chunkIndex = n - 1

\* what the getUserBlocks call of one user has given so far
NoResult == [res |-> "none"]
Failed == [res |-> "throw"]
Fetched(blocks) == [res |-> "ok", blocks |-> blocks]

\* an invocation slot with no performFullSync in flight.  Besides the local
\* variables of performFullSync a slot records what the pass has seen: got
\* (the result of each fetch), loadedDid (the owner of the stored cache when
\* the pass loaded it), pruned (pruneCache removed an entry), saveFailed (a
\* write of the cache failed), wasStale (the pass found a stale lock), and
\* exit (how the last invocation of the slot returned), unsaved (the chunks
\* completed since the last call of safeSaveBlockCache in the chunk loop),
\* persists (the writes of the cache that succeeded), persisted (the users
\* with an entry in the cache of the last such write) and evicted (pruneCache
\* has removed an entry since then).
\* saved is the local of the chunk loop that takes the result of
\* safeSaveBlockCache
IdleInv ==
    [pc |-> "idle", cur |-> NoStatus, did |-> NoAuth, mem |-> NoCache,
     follows |-> << >>, chunkIndex |-> 0, syncedCount |-> 0, errors |-> << >>,
     errorMsg |-> "", saved |-> "none", upc |-> [u \in Users |-> "none"],
     uarg |-> [u \in Users |-> 0], ucur |-> [u \in Users |-> NoStatus],
     got |-> [u \in Users |-> NoResult], loadedDid |-> NoAuth,
     pruned |-> FALSE, saveFailed |-> FALSE, wasStale |-> FALSE,
     unsaved |-> 0, persists |-> 0, persisted |-> {}, evicted |-> FALSE,
     exit |-> "none"]

\* performFullSync has returned
Returned(how) == [IdleInv EXCEPT !.exit = how]

Set(i, r) == inv' = [inv EXCEPT ![i] = r]

\* a performFullSync() call: a new invocation, about to read the status
\* (the lowest free slot is taken; starts stops counting at its bound)
Invoke(i) ==
    /\ inv[i].pc = "idle"
    /\ \A j \in Procs : j < i => inv[j].pc # "idle"
    /\ starts' = IF starts < MaxStarts THEN starts + 1 ELSE starts
    /\ Set(i, [IdleInv EXCEPT !.pc = "start"])

\* the record of a pass after a write of its cache has succeeded
Persisted(r) ==
    [r EXCEPT !.persists = @ + 1,
              !.persisted = DOMAIN r.mem.userBlockCaches,
              !.evicted = FALSE]

\* a retry whose outcome is thrown into the catch block of the pass
AbortAfterRetry(r) ==
    IF r.pc = "saveRetry" THEN "catchR"
    ELSE IF r.chunkIndex < NumChunks(r.follows) - 1 THEN "sleep" ELSE "finR"

\* the pc after a save attempt of the chunk loop has settled
AfterSave(r) ==
    IF r.chunkIndex < NumChunks(r.follows) - 1 THEN "sleep" ELSE "finR"

\* getSyncStatus and the lock test
ReadStatus(i) ==
    /\ inv[i].pc = "start"
    /\ LET st == GetSyncStatus(status)
       IN  IF st.isRunning
           THEN IF LockIsFresh(st, now)
                THEN Set(i, Returned("skipped"))
                ELSE Set(i, [inv[i] EXCEPT !.pc = "resetR", !.wasStale = TRUE])
           ELSE Set(i, [inv[i] EXCEPT !.pc = "auth"])
    /\ resp' = NoResp
    /\ UNCHANGED <<status, cache, auth, now, kills, starts>>

\* stale lock: the read of updateSyncStatus({isRunning: false})
ResetRead(i) ==
    /\ inv[i].pc = "resetR"
    /\ Set(i, [inv[i] EXCEPT !.pc = "resetW", !.cur = GetSyncStatus(status)])
    /\ resp' = NoResp
    /\ UNCHANGED <<status, cache, auth, now, kills, starts>>

\* stale lock: the write of updateSyncStatus({isRunning: false})
ResetWrite(i) ==
    /\ inv[i].pc = "resetW"
    /\ status' = ResetStatus(inv[i].cur, now)
    /\ Set(i, [inv[i] EXCEPT !.pc = "auth", !.cur = NoStatus])
    /\ resp' = NoResp
    /\ UNCHANGED <<cache, auth, now, kills, starts>>

\* an auth test that takes whatever getStoredAuth returns
AnyAuth(stored) == TRUE

\* the auth test, auth?.did: an auth is stored and it has a did (NoAuth
\* stands for no stored auth and for a stored auth without a did)
HasDid(stored) == stored # NoAuth

\* getStoredAuth: without an auth the pass returns
AuthCheck(i) ==
    /\ inv[i].pc = "auth"
    /\ IF ~HasDid(auth)
       THEN Set(i, Returned("no auth"))
       ELSE Set(i, [inv[i] EXCEPT !.pc = "lockR", !.did = auth])
    /\ resp' = NoResp
    /\ UNCHANGED <<status, cache, auth, now, kills, starts>>

\* lock acquisition: the read of updateSyncStatus({isRunning: true, ...})
LockRead(i) ==
    /\ inv[i].pc = "lockR"
    /\ Set(i, [inv[i] EXCEPT !.pc = "lockW", !.cur = GetSyncStatus(status)])
    /\ resp' = NoResp
    /\ UNCHANGED <<status, cache, auth, now, kills, starts>>

\* lock acquisition: the write
LockWrite(i) ==
    /\ inv[i].pc = "lockW"
    /\ status' = LockStatus(inv[i].cur, now)
    /\ Set(i, [inv[i] EXCEPT !.pc = "load", !.cur = NoStatus])
    /\ resp' = NoResp
    /\ UNCHANGED <<cache, auth, now, kills, starts>>

\* getBlockCache, the identity check and the proactive pruning
Load(i) ==
    /\ inv[i].pc = "load"
    /\ LET c == LoadCache(cache, inv[i].did)
           owner == IF cache = NoCache THEN NoAuth ELSE cache.currentUserDid
       IN  IF NearLimit(c)
           THEN \E kept \in PruneCache(c) :
                    Set(i, [inv[i] EXCEPT !.pc = "proSave", !.mem = kept,
                                          !.loadedDid = owner,
                                          !.pruned = (kept # c),
                                          !.evicted = (kept # c)])
           ELSE Set(i, [inv[i] EXCEPT !.pc = "follows", !.mem = c,
                                      !.loadedDid = owner])
    /\ resp' = NoResp
    /\ UNCHANGED <<status, cache, auth, now, kills, starts>>

\* the outcomes of one storage.local.set of the cache
SaveOutcomes == {"ok", "quota", "error"}

\* safeSaveBlockCache of the proactive pruning: first write
ProactiveSave(i) ==
    /\ inv[i].pc = "proSave"
    /\ \E outcome \in SaveOutcomes :
          CASE outcome = "ok" ->
                  /\ cache' = inv[i].mem
                  /\ Set(i, Persisted([inv[i] EXCEPT !.pc = "follows"]))
            [] outcome = "quota" ->
                  /\ \E kept \in PruneCache(inv[i].mem) :
                        Set(i, [inv[i] EXCEPT !.pc = "proRetry", !.mem = kept,
                                   !.pruned = @ \/ kept # inv[i].mem,
                                   !.evicted = @ \/ kept # inv[i].mem,
                                   !.saveFailed = TRUE])
                  /\ UNCHANGED cache
            [] outcome = "error" ->
                  /\ Set(i, [inv[i] EXCEPT !.pc = "catchR",
                                           !.errorMsg = "save failed",
                                           !.saveFailed = TRUE])
                  /\ UNCHANGED cache
    /\ resp' = NoResp
    /\ UNCHANGED <<status, auth, now, kills, starts>>

\* safeSaveBlockCache of the proactive pruning: the one retry
ProactiveRetry(i) ==
    /\ inv[i].pc = "proRetry"
    /\ \E ok \in BOOLEAN :
          /\ cache' = IF ok THEN inv[i].mem ELSE cache
          /\ Set(i, IF ok THEN Persisted([inv[i] EXCEPT !.pc = "follows"])
                     ELSE [inv[i] EXCEPT !.pc = "follows"])
    /\ resp' = NoResp
    /\ UNCHANGED <<status, auth, now, kills, starts>>

\* getAllFollows: it throws, or returns the follow list, which replaces
\* followedUsers and starts the fetches of the first chunk
FetchFollows(i, lists) ==
    /\ inv[i].pc = "follows"
    /\ \/ Set(i, [inv[i] EXCEPT !.pc = "catchR",
                                !.errorMsg = "Failed to get follows"])
       \/ \E f \in lists :
             Set(i, [inv[i] EXCEPT
                 !.pc = IF Len(f) = 0 THEN "finR" ELSE "chunk",
                 !.follows = f,
                 !.mem = [@ EXCEPT !.followedUsers = f],
                 !.upc = [u \in Users |->
                             IF u \in ChunkUsers(f, 0) THEN "fetch" ELSE "none"]])
    /\ resp' = NoResp
    /\ UNCHANGED <<status, cache, auth, now, kills, starts>>

\* getUserBlocks(user.did) settles: it throws, which is recorded as a per-user
\* error, or returns a list (a non-array is taken as the empty list)
UserFetch(i, u) ==
    /\ inv[i].pc = "chunk"
    /\ inv[i].upc[u] = "fetch"
    /\ \/ Set(i, [inv[i] EXCEPT !.errors = RecordError(@, u),
                                !.upc[u] = "done",
                                !.got[u] = Failed])
       \/ \E b \in BlockLists :
             Set(i, [inv[i] EXCEPT
                 !.mem = StoreUserBlocks(@, u, b),
                 !.syncedCount = @ + 1,
                 !.uarg[u] = inv[i].syncedCount + 1,
                 !.upc[u] = "stR",
                 !.got[u] = Fetched(b)])
    /\ resp' = NoResp
    /\ UNCHANGED <<status, cache, auth, now, kills, starts>>

\* the read of the per-user updateSyncStatus
UserStatusRead(i, u) ==
    /\ inv[i].pc = "chunk"
    /\ inv[i].upc[u] = "stR"
    /\ Set(i, [inv[i] EXCEPT !.upc[u] = "stW",
                             !.ucur[u] = GetSyncStatus(status)])
    /\ resp' = NoResp
    /\ UNCHANGED <<status, cache, auth, now, kills, starts>>

\* the write of the per-user updateSyncStatus
UserStatusWrite(i, u) ==
    /\ inv[i].pc = "chunk"
    /\ inv[i].upc[u] = "stW"
    /\ status' = ProgressStatus(inv[i].ucur[u], inv[i].uarg[u],
                                Len(inv[i].follows), now)
    /\ Set(i, [inv[i] EXCEPT !.upc[u] = "done", !.ucur[u] = NoStatus])
    /\ resp' = NoResp
    /\ UNCHANGED <<cache, auth, now, kills, starts>>

\* Promise.all of the chunk has settled: save if due, else sleep
ChunkDone(i) ==
    /\ inv[i].pc = "chunk"
    /\ \A u \in ChunkUsers(inv[i].follows, inv[i].chunkIndex) :
          inv[i].upc[u] = "done"
    /\ IF SaveDue(inv[i].chunkIndex, NumChunks(inv[i].follows))
       THEN Set(i, [inv[i] EXCEPT !.pc = "save", !.unsaved = 0])
       ELSE Set(i, [inv[i] EXCEPT !.pc = AfterSave(inv[i]),
                                  !.unsaved = @ + 1])
    /\ resp' = NoResp
    /\ UNCHANGED <<status, cache, auth, now, kills, starts>>

\* safeSaveBlockCache of the chunk loop: first write
Save(i) ==
    /\ inv[i].pc = "save"
    /\ \E outcome \in SaveOutcomes :
          CASE outcome = "ok" ->
                  /\ cache' = inv[i].mem
                  /\ Set(i, Persisted([inv[i] EXCEPT
                                           !.pc = AfterSave(inv[i]),
                                           !.saved = "true"]))
            [] outcome = "quota" ->
                  /\ \E kept \in PruneCache(inv[i].mem) :
                        Set(i, [inv[i] EXCEPT !.pc = "saveRetry", !.mem = kept,
                                   !.pruned = @ \/ kept # inv[i].mem,
                                   !.evicted = @ \/ kept # inv[i].mem,
                                   !.saveFailed = TRUE])
                  /\ UNCHANGED cache
            [] outcome = "error" ->
                  /\ Set(i, [inv[i] EXCEPT !.pc = "catchR",
                                           !.errorMsg = "save failed",
                                           !.saveFailed = TRUE])
                  /\ UNCHANGED cache
    /\ resp' = NoResp
    /\ UNCHANGED <<status, auth, now, kills, starts>>

\* safeSaveBlockCache of the chunk loop: the one retry; a second failure is
\* logged and the pass goes on
SaveRetry(i) ==
    /\ inv[i].pc = "saveRetry"
    /\ \E ok \in BOOLEAN :
          /\ cache' = IF ok THEN inv[i].mem ELSE cache
          /\ Set(i, IF ok
                     THEN Persisted([inv[i] EXCEPT !.pc = AfterSave(inv[i]),
                                                   !.saved = "true"])
                     ELSE [inv[i] EXCEPT !.pc = AfterSave(inv[i]),
                                         !.saved = "false"])
    /\ resp' = NoResp
    /\ UNCHANGED <<status, auth, now, kills, starts>>

\* sleep(RATE_LIMIT_DELAY_MS) is over: the fetches of the next chunk start
Sleep(i) ==
    /\ inv[i].pc = "sleep"
    /\ Set(i, [inv[i] EXCEPT
           !.pc = "chunk",
           !.chunkIndex = @ + 1,
           !.saved = "none",
           !.upc = [u \in Users |->
                       IF u \in ChunkUsers(inv[i].follows, inv[i].chunkIndex + 1)
                       THEN "fetch" ELSE @[u]]])
    /\ resp' = NoResp
    /\ UNCHANGED <<status, cache, auth, now, kills, starts>>

\* finalization: the read of the last updateSyncStatus
FinalRead(i) ==
    /\ inv[i].pc = "finR"
    /\ Set(i, [inv[i] EXCEPT !.pc = "finW", !.cur = GetSyncStatus(status)])
    /\ resp' = NoResp
    /\ UNCHANGED <<status, cache, auth, now, kills, starts>>

\* finalization: the write, after which performFullSync returns
FinalWrite(i) ==
    /\ inv[i].pc = "finW"
    /\ status' = FinalStatus(inv[i].cur, inv[i].syncedCount,
                             Len(inv[i].follows), inv[i].errors, now)
    /\ Set(i, Returned("complete"))
    /\ resp' = NoResp
    /\ UNCHANGED <<cache, auth, now, kills, starts>>

\* catch block: the read of its updateSyncStatus
CatchRead(i) ==
    /\ inv[i].pc = "catchR"
    /\ Set(i, [inv[i] EXCEPT !.pc = "catchW", !.cur = GetSyncStatus(status)])
    /\ resp' = NoResp
    /\ UNCHANGED <<status, cache, auth, now, kills, starts>>

\* catch block: the write, after which performFullSync returns
CatchWrite(i) ==
    /\ inv[i].pc = "catchW"
    /\ status' = FailedStatus(inv[i].cur, inv[i].errorMsg, now)
    /\ Set(i, Returned("failed"))
    /\ resp' = NoResp
    /\ UNCHANGED <<cache, auth, now, kills, starts>>

\* one step of invocation i, with the follow lists the remote can return
Step(i, lists) ==
    \/ ReadStatus(i) \/ ResetRead(i) \/ ResetWrite(i) \/ AuthCheck(i)
    \/ LockRead(i) \/ LockWrite(i) \/ Load(i)
    \/ ProactiveSave(i) \/ ProactiveRetry(i) \/ FetchFollows(i, lists)
    \/ \E u \in Users : UserFetch(i, u)
    \/ \E u \in Users : UserStatusRead(i, u)
    \/ \E u \in Users : UserStatusWrite(i, u)
    \/ ChunkDone(i) \/ Save(i) \/ SaveRetry(i) \/ Sleep(i)
    \/ FinalRead(i) \/ FinalWrite(i) \/ CatchRead(i) \/ CatchWrite(i)

----------------------------------------------------------------------------
(* background.ts: triggers and message handlers *)

\* the alarm listener and the TRIGGER_SYNC message: performFullSync()
TriggerSync(i) ==
    /\ Invoke(i)
    /\ resp' = NoResp
    /\ UNCHANGED <<status, cache, auth, now, kills>>

\* a sync test that looks at the identity and at an empty cache only
NeedsSyncWithoutCount(existingAuth, newDid, c) ==
    \/ existingAuth = NoAuth \/ existingAuth # newDid
    \/ c = NoCache \/ Len(c.followedUsers) = 0

\* the sync test of SET_AUTH
NeedsSync(existingAuth, newDid, c) ==
    LET cacheIsEmpty == c = NoCache \/ Len(c.followedUsers) = 0
        isNewUser == existingAuth = NoAuth \/ existingAuth # newDid
        cacheIncomplete ==
            /\ c # NoCache
            /\ Len(c.followedUsers) > 100
            /\ 100 * Cardinality(DOMAIN c.userBlockCaches)
                  < 5 * Len(c.followedUsers)
    IN  isNewUser \/ cacheIsEmpty \/ cacheIncomplete

\* SET_AUTH: store the auth and start a pass when one is needed
SetAuth(d, slots) ==
    /\ auth' = d
    /\ IF NeedsSync(auth, d, cache)
       THEN \E i \in slots : Invoke(i)
       ELSE UNCHANGED <<inv, starts>>
    /\ resp' = NoResp
    /\ UNCHANGED <<status, cache, now, kills>>

\* the block lists the viewed profile can have
ProfileBlockLists == {<< >>, <<"u1">>, <<"u2", "u1">>}

\* GET_BLOCKING_INFO: fetch the viewed profile's blocks (a failure gives the
\* empty list) and answer from the stored cache; the response is recorded
\* with the list the fetch gave
GetBlockingInfo(profileDid) ==
    /\ \E profileBlocks \in ProfileBlockLists :
          resp' = [profileDid |-> profileDid,
                   profileBlocks |-> profileBlocks,
                   blockingInfo |->
                       LookupBlockingInfo(profileDid, profileBlocks, cache)]
    /\ UNCHANGED <<status, cache, auth, now, inv, kills, starts>>

\* CLEAR_CACHE: store an empty cache, reset the status, start a pass
ClearCache(slots) ==
    /\ cache' = CreateEmptyCache("")
    /\ status' = UpdateSyncStatus(GetSyncStatus(status),
                     [totalFollows |-> 0, syncedFollows |-> 0, lastSync |-> 0,
                      isRunning |-> FALSE, errors |-> << >>], now)
    /\ \E i \in slots : Invoke(i)
    /\ resp' = NoResp
    /\ UNCHANGED <<auth, now, kills>>

----------------------------------------------------------------------------
(* environment *)

\* time passes
Tick ==
    /\ now < MaxNow
    /\ now' = now + 1
    /\ resp' = NoResp
    /\ UNCHANGED <<status, cache, auth, inv, kills, starts>>

\* the browser terminates the service worker: every invocation in flight is
\* lost, storage stays
Kill ==
    /\ kills < MaxKills
    /\ \E i \in Procs : inv[i].pc # "idle"
    /\ kills' = kills + 1
    /\ inv' = [i \in Procs |->
                 IF inv[i].pc = "idle" THEN inv[i] ELSE Returned("killed")]
    /\ resp' = NoResp
    /\ UNCHANGED <<status, cache, auth, now, starts>>

\* a fresh installation: nothing stored, nothing in flight
Init ==
    /\ status = NoStatus
    /\ cache = NoCache
    /\ auth = NoAuth
    /\ now = 0
    /\ inv = [i \in Procs |-> IdleInv]
    /\ resp = NoResp
    /\ kills = 0
    /\ starts = 0
    /\ hist = NoHist
    /\ bloom = NoBloom
    /\ query = NoQuery

\* the bound on the invocations of a capped specification
CanStart == starts < MaxStarts

----------------------------------------------------------------------------
(* Spec: two invocation slots, so passes can overlap; the remote returns   *)
(* follow lists of at most one user, so a pass has at most one chunk (the  *)
(* sleep between two chunks is taken under SeqSpec and LiveSpec)           *)

Next ==
    \/ \E i \in Procs : CanStart /\ TriggerSync(i) /\ UNCHANGED <<hist, bloom, query>>
    \/ \E i \in Procs : Step(i, ShortFollowLists) /\ UNCHANGED <<hist, bloom, query>>
    \/ \E d \in Dids :
          /\ NeedsSync(auth, d, cache) => CanStart
          /\ SetAuth(d, Procs)
          /\ UNCHANGED <<hist, bloom, query>>
    \/ CanStart /\ ClearCache(Procs) /\ UNCHANGED <<hist, bloom, query>>
    \/ Tick /\ UNCHANGED <<hist, bloom, query>>
    \/ Kill /\ UNCHANGED <<hist, bloom, query>>

Spec == Init /\ [][Next]_vars

----------------------------------------------------------------------------
(* SeqSpec: triggers arrive only while no pass is in flight (one slot);    *)
(* the remote returns follow lists of up to three users (two chunks), and  *)
(* profile pages are queried                                               *)

SeqNext ==
    \/ CanStart /\ TriggerSync(1) /\ UNCHANGED <<hist, bloom, query>>
    \/ Step(1, FollowLists) /\ UNCHANGED <<hist, bloom, query>>
    \/ \E d \in Dids :
          /\ NeedsSync(auth, d, cache) => CanStart
          /\ SetAuth(d, {1})
          /\ UNCHANGED <<hist, bloom, query>>
    \/ \E p \in Profiles : GetBlockingInfo(p) /\ UNCHANGED <<hist, bloom, query>>
    \/ CanStart /\ ClearCache({1}) /\ UNCHANGED <<hist, bloom, query>>
    \/ Tick /\ UNCHANGED <<hist, bloom, query>>
    \/ Kill /\ UNCHANGED <<hist, bloom, query>>

SeqSpec == Init /\ [][SeqNext]_vars

----------------------------------------------------------------------------
(* LiveSpec: triggers arrive only while no pass is in flight (one slot);   *)
(* the alarm keeps firing, time advances up to MaxNow and every awaited    *)
(* operation of a running worker completes.  The clock of the model stops  *)
(* at MaxNow, so the worker is terminated only before that: a lock left at *)
(* MaxNow could not age.  The remote returns no follows or three (two      *)
(* chunks)                                                                 *)

LiveTrigger == TriggerSync(1) /\ UNCHANGED <<hist, bloom, query>>
LiveStep == Step(1, LiveFollowLists) /\ UNCHANGED <<hist, bloom, query>>
LiveTick == Tick /\ UNCHANGED <<hist, bloom, query>>

LiveNext ==
    \/ LiveTrigger
    \/ LiveStep
    \/ \E d \in Dids : SetAuth(d, {1}) /\ UNCHANGED <<hist, bloom, query>>
    \/ ClearCache({1}) /\ UNCHANGED <<hist, bloom, query>>
    \/ LiveTick
    \/ now < MaxNow /\ Kill /\ UNCHANGED <<hist, bloom, query>>

LiveSpec ==
    /\ Init
    /\ [][LiveNext]_vars
    /\ WF_vars(LiveTrigger)
    /\ WF_vars(LiveStep)
    /\ WF_vars(LiveTick)

----------------------------------------------------------------------------
(* RepeatSpec: passes one after the other (one slot, a running worker),    *)
(* with hist recording the last pass that ran to completion with no fetch  *)
(* or save failure: what the remote returned to it and the answers its     *)
(* stored cache gives.  A pass that fails, a CLEAR_CACHE or a change of    *)
(* identity forgets it                                                     *)

\* the answers of lookupBlockingInfo on cache c, for every profile and every
\* block list of the profile
View(c) ==
    [p \in Profiles |->
        [pb \in ProfileBlockLists |-> LookupBlockingInfo(p, pb, c)]]

\* invocation i has had no fetch failure and no save failure
Clean(i) ==
    /\ ~inv[i].saveFailed
    /\ \A k \in 1..Len(inv[i].follows) :
          inv[i].got[inv[i].follows[k]].res = "ok"

\* hist after a step of invocation i
HistAfter(i) ==
    IF inv[i].pc = "finW"
    THEN IF Clean(i)
         THEN [did |-> inv[i].did, follows |-> inv[i].follows,
               got |-> inv[i].got, view |-> View(cache)]
         ELSE NoHist
    ELSE IF inv[i].pc = "catchW" THEN NoHist ELSE hist

RepeatNext ==
    \/ TriggerSync(1) /\ UNCHANGED <<hist, bloom, query>>
    \/ Step(1, FollowLists) /\ hist' = HistAfter(1)
                             /\ UNCHANGED <<bloom, query>>
    \/ \E d \in Dids :
          /\ SetAuth(d, {1})
          /\ hist' = IF d = auth THEN hist ELSE NoHist
          /\ UNCHANGED <<bloom, query>>
    \/ ClearCache({1}) /\ hist' = NoHist /\ UNCHANGED <<bloom, query>>

RepeatSpec == Init /\ [][RepeatNext]_vars

----------------------------------------------------------------------------
(* The lease lock *)

\* the positions of a pass after its lock write and before its final write
LockedPcs ==
    {"load", "proSave", "proRetry", "follows", "chunk", "save", "saveRetry",
     "sleep", "finR", "finW", "catchR", "catchW"}

\* invocation i takes a step of its own (it is not lost with the worker)
Steps(i) == inv'[i] # inv[i] /\ kills' = kills

\* C1: at most one performFullSync invocation is between its lock write
\* (isRunning=true) and its final write (isRunning=false) at any time
C1_MutualExclusion ==
    Cardinality({i \in Procs : inv[i].pc \in LockedPcs}) <= 1

\* C2: an invocation that reads a status with isRunning=true and a heartbeat
\* younger than 5 minutes returns at once (so before any getAllFollows or
\* getUserBlocks call) and leaves the stored status and cache as they were
C2_FreshLockSkips ==
    [][\A i \in Procs :
          (/\ inv[i].pc = "start"
           /\ Steps(i)
           /\ status # NoStatus
           /\ status.isRunning
           /\ now - status.lastUpdated < STALE_LOCK_TIMEOUT_MS)
          => /\ inv'[i] = Returned("skipped")
             /\ status' = status
             /\ cache' = cache]_vars

\* an invocation has skipped and the lock it saw is still held
C2_Witness ==
    /\ \E i \in Procs : inv[i].exit = "skipped"
    /\ status # NoStatus
    /\ status.isRunning

\* the path of an invocation that has found a stale lock, up to the
\* enumeration of the follows
StalePath(i) ==
    CASE inv[i].pc = "resetR" -> inv'[i].pc = "resetW"
      [] inv[i].pc = "resetW" ->
            /\ inv'[i].pc = "auth"
            /\ ~status'.isRunning
      [] inv[i].pc = "auth" -> auth # NoAuth /\ inv'[i].pc = "lockR"
      [] inv[i].pc = "lockR" -> inv'[i].pc = "lockW"
      [] inv[i].pc = "lockW" ->
            /\ inv'[i].pc = "load"
            /\ status'.isRunning
      [] inv[i].pc = "load" -> inv'[i].pc \in {"proSave", "follows"}
      [] OTHER -> TRUE

\* C3: an invocation that reads a status with isRunning=true and a heartbeat
\* of 5 minutes or older does not skip: it writes isRunning=false, then
\* checks the auth, writes the lock and goes on to enumerate the follows
C3_StaleLockRecovery ==
    [][\A i \in Procs :
          /\ (/\ inv[i].pc = "start"
              /\ Steps(i)
              /\ status # NoStatus
              /\ status.isRunning
              /\ now - status.lastUpdated >= STALE_LOCK_TIMEOUT_MS)
             => inv'[i].pc = "resetR" /\ inv'[i].wasStale
          /\ (inv[i].wasStale /\ Steps(i)) => StalePath(i)]_vars

\* an invocation that found a stale lock is about to enumerate the follows
C3_Witness ==
    \E i \in Procs : inv[i].wasStale /\ inv[i].pc = "follows"

\* the worker has been terminated and has left the lock set
KilledLock ==
    /\ kills > 0
    /\ \A i \in Procs : inv[i].pc = "idle"
    /\ status # NoStatus
    /\ status.isRunning

\* C4: after the worker was terminated during a pass, leaving isRunning=true,
\* some later invocation writes the lock and runs, provided the alarm keeps
\* firing and time advances
C4_NoDeadlockAfterKill ==
    KilledLock ~> (\E i \in Procs : inv[i].pc \in LockedPcs)

\* a pass that found the lock of a terminated worker stale has taken it
C4_Witness ==
    /\ kills > 0
    /\ \E i \in Procs : inv[i].wasStale /\ inv[i].pc = "load"
    /\ status.isRunning

\* the status a pass leaves when it ends: the final counts and the per-user
\* errors on success, the message of the exception on a failure
ReleaseWrite(i) ==
    \/ /\ inv[i].pc = "finW"
       /\ ~status'.isRunning
       /\ status'.lastSync = now
       /\ status'.syncedFollows = inv[i].syncedCount
       /\ status'.totalFollows = Len(inv[i].follows)
       /\ status'.errors = inv[i].errors
    \/ /\ inv[i].pc = "catchW"
       /\ ~status'.isRunning
       /\ status'.errors = <<inv[i].errorMsg>>

----------------------------------------------------------------------------
(* The chunk loop *)

\* the users of the follow list of invocation i
FollowSet(i) == {inv[i].follows[k] : k \in 1..Len(inv[i].follows)}

\* the users whose getUserBlocks call threw / returned a non-empty list
FailedUsers(i) == {u \in FollowSet(i) : inv[i].got[u] = Failed}
BlockingUsers(i) ==
    {u \in FollowSet(i) :
        inv[i].got[u].res = "ok" /\ Len(inv[i].got[u].blocks) > 0}

\* the users with an entry in a stored cache
StoredEntries(c) == IF c = NoCache THEN {} ELSE DOMAIN c.userBlockCaches

\* a failed fetch never takes the pass to the catch block, and at the final
\* write every user has been processed and the errors count the failed users
FetchFailuresKept(i) ==
    /\ (inv[i].pc # "catchR" /\ inv'[i].pc = "catchR")
          => inv[i].pc \in {"follows", "proSave", "save"}
    /\ inv[i].pc = "finW" =>
          /\ \A u \in FollowSet(i) : inv[i].got[u] # NoResult
          /\ inv'[i].exit = "complete"
          /\ Len(status'.errors) = Cardinality(FailedUsers(i))

C7_WholesaleReplacement ==
    [][\A i \in Procs :
          (/\ Steps(i)
           /\ inv[i].pc = "finW"
           /\ ~inv[i].saveFailed
           /\ ~inv[i].pruned)
          => \A u \in FollowSet(i) :
                inv[i].got[u].res = "ok" =>
                   IF Len(inv[i].got[u].blocks) = 0
                   THEN u \notin StoredEntries(cache')
                   ELSE /\ u \in StoredEntries(cache')
                        /\ cache'.userBlockCaches[u].blocks
                              = inv[i].got[u].blocks]_vars

----------------------------------------------------------------------------
(* Identity pinning *)

\* the positions of a pass at which it writes the cache
SavePcs == {"proSave", "proRetry", "save", "saveRetry"}

\* C9: every cache a pass stores has the currentUserDid of the auth the
\* pass loaded, and when the cache it found stored belonged to another
\* identity (or none was stored) every entry it stores comes from a fetch
\* of this pass
C9_IdentityPinnedOnWrite ==
    [][\A i \in Procs :
          (Steps(i) /\ inv[i].pc \in SavePcs /\ cache' # cache)
          => /\ cache'.currentUserDid = inv[i].did
             /\ inv[i].loadedDid # inv[i].did =>
                   \A u \in StoredEntries(cache') :
                      /\ inv[i].got[u].res = "ok"
                      /\ cache'.userBlockCaches[u].blocks
                            = inv[i].got[u].blocks]_vars

\* a pass for identity Y has found the cache of identity X, with entries,
\* and has stored its own cache with entries
C9_Witness ==
    \E i \in Procs :
       /\ inv[i].loadedDid = "X"
       /\ inv[i].did = "Y"
       /\ inv[i].pc \in {"finR", "finW"}
       /\ cache # NoCache
       /\ cache.currentUserDid = "Y"
       /\ DOMAIN cache.userBlockCaches # {}

\* C10: a GET_BLOCKING_INFO answer given while the stored cache belongs to
\* another identity than the stored auth is the answer of an empty cache
C10_IdentityPinnedOnRead ==
    (/\ resp # NoResp
     /\ cache # NoCache
     /\ cache.currentUserDid # auth)
    => resp.blockingInfo = [blockedBy |-> << >>, blocking |-> << >>]

----------------------------------------------------------------------------
(* Repeated passes *)

\* invocation i is at its final write, the pass before it is recorded, and
\* the remote has returned the same follows and the same block lists to both
SecondPass(i) ==
    /\ inv[i].pc = "finW"
    /\ Clean(i)
    /\ hist # NoHist
    /\ hist.did = inv[i].did
    /\ hist.follows = inv[i].follows
    /\ hist.got = inv[i].got

\* C8: when two passes in a row run to completion against the same remote
\* state, with no fetch or save failure, the stored cache gives the same
\* lookupBlockingInfo answers after the second pass as after the first
C8_IdempotentPasses ==
    \A i \in Procs : SecondPass(i) => View(cache) = hist.view

----------------------------------------------------------------------------
(* PruneSpec: a pass that has taken the lock and is about to load a stored  *)
(* cache of its own identity.  The stored cache is any cache earlier passes *)
(* can have left: a follow list of 1, 3 or MaxFollows users, and for each   *)
(* of the first three an entry of one or two blocks, or none               *)

MaxFollows == 11

FollowNames ==
    <<"u1", "u2", "u3", "u4", "u5", "u6", "u7", "u8", "u9", "u10", "u11",
      "u12", "u13", "u14">>

PruneFollowLists ==
    {SubSeq(FollowNames, 1, n) : n \in {1, 3, MaxFollows}}

PruneBlockLists == {<<"p1">>, <<"p1", "p2">>}

PruneUsers == {"u1", "u2", "u3"}

\* the entry a pass stores for a user
StoredEntry(user, blocks) ==
    [did |-> user, blocks |-> blocks, meta |-> ProfileSize(user)]

PruneInputs ==
    {[followedUsers |-> f,
      userBlockCaches |-> [u \in us |-> StoredEntry(u, b[u])],
      currentUserDid |-> "X"] :
        f \in PruneFollowLists,
        us \in SUBSET PruneUsers,
        b \in [PruneUsers -> PruneBlockLists]}

PruneInit ==
    /\ cache \in PruneInputs
    /\ status = LockStatus(DefaultStatus, 0)
    /\ auth = "X"
    /\ now = 0
    /\ inv = [i \in Procs |->
                 IF i = 1 THEN [IdleInv EXCEPT !.pc = "load", !.did = "X"]
                 ELSE IdleInv]
    /\ resp = NoResp
    /\ kills = 0
    /\ starts = 1
    /\ hist = NoHist
    /\ bloom = NoBloom
    /\ query = NoQuery

PruneNext ==
    \/ Load(1) /\ UNCHANGED <<hist, bloom, query>>
    \/ ProactiveSave(1) /\ UNCHANGED <<hist, bloom, query>>
    \/ ProactiveRetry(1) /\ UNCHANGED <<hist, bloom, query>>

PruneSpec == PruneInit /\ [][PruneNext]_vars

----------------------------------------------------------------------------
(* Eviction *)

\* the step is a pruneCache call of invocation i: the proactive one of the
\* load, or the one safeSaveBlockCache makes after a quota error
PruneCall(i) ==
    \/ inv[i].pc = "load" /\ inv'[i].pc = "proSave"
    \/ inv[i].pc = "proSave" /\ inv'[i].pc = "proRetry"
    \/ inv[i].pc = "save" /\ inv'[i].pc = "saveRetry"

\* the cache that call is given
PruneArg(i) ==
    IF inv[i].pc = "load" THEN LoadCache(cache, inv[i].did) ELSE inv[i].mem

\* the quota is at least the size of the largest entry of c
LargestEntryFits(c) ==
    \A d \in DOMAIN c.userBlockCaches :
        EntrySize(c.userBlockCaches[d]) <= MAX_CACHE_SIZE_BYTES

\* C11: pruneCache, given a cache whose estimated size exceeds
\* MAX_CACHE_SIZE_BYTES and whose largest entry is no larger than the quota,
\* leaves a cache whose size is at or below MAX_CACHE_SIZE_BYTES
C11_EvictionReachesQuota ==
    [][\A i \in Procs :
          (/\ PruneCall(i)
           /\ EstimateObjectSize(PruneArg(i)) > MAX_CACHE_SIZE_BYTES
           /\ LargestEntryFits(PruneArg(i)))
          => EstimateObjectSize(inv'[i].mem) <= MAX_CACHE_SIZE_BYTES]_vars

\* the entries a pruneCache call of invocation i removes and keeps
Removed(i) ==
    DOMAIN PruneArg(i).userBlockCaches \ DOMAIN inv'[i].mem.userBlockCaches

Kept(i) == DOMAIN inv'[i].mem.userBlockCaches

\* the size pruneCache projects after it has removed the entries dids of c
ProjectedSize(c, dids) ==
    EstimateObjectSize(c)
        - (SumEntrySizes(c.userBlockCaches, dids)
              - EntryKeySize * Cardinality(dids))

\* C12: a pruneCache call removes nothing from a cache at or below the quota;
\* otherwise the entries it removes are a prefix of the ranking by size,
\* largest first (no entry kept is larger than an entry removed), it stops
\* only when the projected size is at or below the quota or no entry is
\* left, and the prefix is the shortest one: before the last removal the
\* projected size was above the quota
C12_EvictionOrder ==
    [][\A i \in Procs : PruneCall(i) =>
          LET c == PruneArg(i)
              size(d) == EntrySize(c.userBlockCaches[d])
          IN  /\ EstimateObjectSize(c) <= MAX_CACHE_SIZE_BYTES
                    => inv'[i].mem = c
              /\ inv'[i].mem = [c EXCEPT !.userBlockCaches =
                                   [d \in Kept(i) |-> c.userBlockCaches[d]]]
              /\ \A r \in Removed(i), k \in Kept(i) : size(r) >= size(k)
              /\ \/ ProjectedSize(c, Removed(i)) <= MAX_CACHE_SIZE_BYTES
                 \/ Kept(i) = {}
              /\ \A r \in Removed(i) :
                    ProjectedSize(c, Removed(i)) + size(r)
                        > MAX_CACHE_SIZE_BYTES]_vars

----------------------------------------------------------------------------
(* safeSaveBlockCache *)

\* where a pass goes on once the safeSaveBlockCache call it is in has returned
Proceed(r) ==
    IF r.pc \in {"proSave", "proRetry"} THEN "follows"
    ELSE IF r.chunkIndex < NumChunks(r.follows) - 1 THEN "sleep" ELSE "finR"

\* C13: the first write of a safeSaveBlockCache call succeeds (result true),
\* or fails on the quota, which gives one pruneCache and one retry, or fails
\* otherwise, which is rethrown; the retry is the last write of the call,
\* with result true when it succeeds and false when it fails, and in both
\* cases the pass goes on; a pass that has got the result false does not
\* enter the catch block and ends with the final write of isRunning=false
C13_QuotaFailureHandling ==
    [][\A i \in Procs : Steps(i) =>
          /\ inv[i].pc \in {"save", "proSave"} =>
                \/ /\ cache' = inv[i].mem
                   /\ inv'[i].mem = inv[i].mem
                   /\ inv'[i].pc = Proceed(inv[i])
                   /\ inv[i].pc = "save" => inv'[i].saved = "true"
                \/ /\ cache' = cache
                   /\ inv'[i].mem \in PruneCache(inv[i].mem)
                   /\ inv'[i].pc =
                         (IF inv[i].pc = "save" THEN "saveRetry" ELSE "proRetry")
                \/ /\ cache' = cache
                   /\ inv'[i].mem = inv[i].mem
                   /\ inv'[i].pc = "catchR"
          /\ inv[i].pc \in {"saveRetry", "proRetry"} =>
                /\ inv'[i].mem = inv[i].mem
                /\ inv'[i].pc = Proceed(inv[i])
                /\ \/ /\ cache' = inv[i].mem
                      /\ inv[i].pc = "saveRetry" => inv'[i].saved = "true"
                   \/ /\ cache' = cache
                      /\ inv[i].pc = "saveRetry" => inv'[i].saved = "false"
          /\ inv[i].saved = "false" =>
                /\ inv'[i].pc \notin {"catchR", "catchW"}
                /\ inv'[i].pc = "idle" =>
                      /\ inv'[i].exit = "complete"
                      /\ ~status'.isRunning]_vars

\* a pass whose last safeSaveBlockCache call returned false, after a retry
\* on a pruned cache, is at its final write
C13_Witness ==
    \E i \in Procs :
        /\ inv[i].pc = "finW"
        /\ inv[i].saved = "false"
        /\ inv[i].pruned

----------------------------------------------------------------------------
(* CadenceSpec: one pass over a follow list of five users, which is three   *)
(* chunks, from its cache load on; the browser can terminate the worker at  *)
(* any point of it.  Nothing is stored yet, or an earlier pass has left a   *)
(* cache near the quota (u1 followed, its entry stored) or over it (three   *)
(* users followed, the entries of u2 and u3 stored)                         *)

CadenceCaches ==
    {NoCache,
     [followedUsers |-> <<"u1">>,
      userBlockCaches |-> [u \in {"u1"} |-> StoredEntry(u, <<"p1">>)],
      currentUserDid |-> "X"],
     [followedUsers |-> <<"u1", "u2", "u3">>,
      userBlockCaches |-> [u \in {"u2", "u3"} |-> StoredEntry(u, <<"p1">>)],
      currentUserDid |-> "X"]}

CadenceInit ==
    /\ cache \in CadenceCaches
    /\ status = LockStatus(DefaultStatus, 0)
    /\ auth = "X"
    /\ now = 0
    /\ inv = [i \in Procs |->
                 IF i = 1 THEN [IdleInv EXCEPT !.pc = "load", !.did = "X"]
                 ELSE IdleInv]
    /\ resp = NoResp
    /\ kills = 0
    /\ starts = 1
    /\ hist = NoHist
    /\ bloom = NoBloom
    /\ query = NoQuery

CadenceNext ==
    \/ Step(1, LongFollowLists) /\ UNCHANGED <<hist, bloom, query>>
    \/ Kill /\ UNCHANGED <<hist, bloom, query>>

CadenceSpec == CadenceInit /\ [][CadenceNext]_vars

----------------------------------------------------------------------------
(* Incremental persistence *)

\* C14: once the fetches of chunk i have settled a save of the cache is
\* attempted exactly when i + 1 is a multiple of SAVE_INTERVAL or i is the
\* last chunk; so at every point of a pass, the points where the worker is
\* terminated included, fewer than SAVE_INTERVAL completed chunks have had no
\* save attempt after them, and a pass with follows enters its finalization
\* from a save attempt
C14_SaveCadence ==
    [][\A i \in Procs :
          /\ (Steps(i) /\ inv[i].pc = "chunk" /\ inv'[i].pc # "chunk") =>
                (inv'[i].pc = "save" <=>
                    \/ (inv[i].chunkIndex + 1) % SAVE_INTERVAL = 0
                    \/ inv[i].chunkIndex = NumChunks(inv[i].follows) - 1)
          /\ inv[i].unsaved < SAVE_INTERVAL
          /\ inv'[i].unsaved < SAVE_INTERVAL
          /\ (Steps(i) /\ inv'[i].pc = "finR" /\ Len(inv[i].follows) > 0) =>
                /\ inv[i].pc \in {"save", "saveRetry"}
                /\ inv[i].chunkIndex = NumChunks(inv[i].follows) - 1]_vars

\* a save is attempted after a chunk that is not the last one
C14_Witness ==
    \E i \in Procs :
        /\ inv[i].pc = "save"
        /\ inv[i].chunkIndex < NumChunks(inv[i].follows) - 1

\* C15: when a pass whose last write of the cache succeeded writes the cache
\* again with success, and pruneCache has removed no entry in between, every
\* user with an entry in the cache written before has an entry in the cache
\* written now
C15_MonotonicWrites ==
    [][\A i \in Procs :
          (/\ Steps(i)
           /\ inv[i].persists > 0
           /\ inv'[i].persists = inv[i].persists + 1
           /\ ~inv[i].evicted)
          => /\ cache' = inv[i].mem
             /\ inv[i].persisted \subseteq DOMAIN cache'.userBlockCaches]_vars

\* a pass that has evicted nothing has written the cache twice, the second
\* time with entries, and goes on to its last chunk
C15_Witness ==
    \E i \in Procs :
        /\ inv[i].persists = 2
        /\ ~inv[i].pruned
        /\ inv[i].pc = "sleep"
        /\ inv[i].persisted # {}

----------------------------------------------------------------------------
(* QuerySpec: profile pages are viewed while a cache that passes have left  *)
(* is stored, or none.  The stored cache has up to three followed users and *)
(* entries for any of u1, u2 and u3, followed or not, with block lists of   *)
(* one entry or of 21 entries                                              *)

LongBlocks ==
    <<"b1", "b2", "b3", "b4", "b5", "b6", "b7", "b8", "b9", "b10", "b11",
      "b12", "b13", "b14", "b15", "b16", "b17", "b18", "b19", "b20", "b21">>

LongBlocksWithP1 ==
    <<"b1", "b2", "b3", "b4", "b5", "b6", "b7", "b8", "b9", "b10", "b11",
      "b12", "b13", "b14", "b15", "b16", "b17", "b18", "b19", "b20", "p1">>

QueryBlockLists == {<<"p1">>, <<"p2">>, LongBlocks, LongBlocksWithP1}

QueryFollowLists ==
    {<< >>, <<"u1">>, <<"u2", "u1">>, <<"u1", "u2", "u3">>}

QueryProfiles == {"p1", "p2"}

QueryCaches ==
    {NoCache} \cup
    {[followedUsers |-> f,
      userBlockCaches |-> [u \in us |-> StoredEntry(u, b[u])],
      currentUserDid |-> "X"] :
        f \in QueryFollowLists,
        us \in SUBSET PruneUsers,
        b \in [PruneUsers -> QueryBlockLists]}

QueryInit ==
    /\ cache \in QueryCaches
    /\ status = NoStatus
    /\ auth = "X"
    /\ now = 0
    /\ inv = [i \in Procs |-> IdleInv]
    /\ resp = NoResp
    /\ kills = 0
    /\ starts = 0
    /\ hist = NoHist
    /\ bloom = NoBloom
    /\ query = NoQuery

QueryNext ==
    \/ \E p \in QueryProfiles : GetBlockingInfo(p) /\ UNCHANGED <<hist, bloom, query>>
    \/ Tick /\ UNCHANGED <<hist, bloom, query>>

QuerySpec == QueryInit /\ [][QueryNext]_vars

----------------------------------------------------------------------------
(* Queries *)

\* the elements of a sequence
Range(s) == {s[k] : k \in 1..Len(s)}

\* C16: the blockedBy of an answer lists, in followedUsers order, exactly the
\* followed users with a cache entry whose block list contains the profile
\* id, whatever the length of the list; a user who is not followed is never
\* listed
C16_ExactBlockedBy ==
    (resp # NoResp /\ cache # NoCache) =>
        /\ resp.blockingInfo.blockedBy =
              SelectSeq(cache.followedUsers,
                  LAMBDA u :
                      /\ u \in DOMAIN cache.userBlockCaches
                      /\ resp.profileDid
                            \in Range(cache.userBlockCaches[u].blocks))
        /\ Range(resp.blockingInfo.blockedBy) \subseteq Range(cache.followedUsers)

\* an answer lists a user whose block list of more than 20 entries contains
\* the profile id, while an entry of a user who is not followed contains it
\* too
C16_Witness ==
    /\ resp # NoResp
    /\ cache # NoCache
    /\ \E u \in Range(resp.blockingInfo.blockedBy) :
          Len(cache.userBlockCaches[u].blocks) > 20
    /\ \E u \in DOMAIN cache.userBlockCaches :
          /\ u \notin Range(cache.followedUsers)
          /\ resp.profileDid \in Range(cache.userBlockCaches[u].blocks)

\* C17: the blocking of an answer lists exactly the followed users whose did
\* is in the block list fetched for the profile: dids that are not followed
\* are left out, and the cache entries play no part
C17_BlockingDirection ==
    (resp # NoResp /\ cache # NoCache) =>
        /\ Range(resp.blockingInfo.blocking) =
              Range(cache.followedUsers) \cap Range(resp.profileBlocks)
        /\ resp.blockingInfo.blocking =
              SelectSeq(resp.profileBlocks,
                  LAMBDA d : d \in Range(cache.followedUsers))

\* an answer lists a followed user without a cache entry as blocked by the
\* profile, and leaves out a did of the profile's list that has an entry but
\* is not followed
C17_Witness ==
    /\ resp # NoResp
    /\ cache # NoCache
    /\ \E u \in Range(resp.blockingInfo.blocking) :
          u \notin DOMAIN cache.userBlockCaches
    /\ \E d \in Range(resp.profileBlocks) :
          /\ d \notin Range(resp.blockingInfo.blocking)
          /\ d \in DOMAIN cache.userBlockCaches

\* C18: with no cache stored a query is answered with an empty blockedBy and
\* an empty blocking, whatever the profile and its block list, and the
\* handler writes nothing to storage
C18_EmptyCacheQuery ==
    [][(cache = NoCache /\ resp' # NoResp) =>
          /\ resp'.blockingInfo = [blockedBy |-> << >>, blocking |-> << >>]
          /\ UNCHANGED <<cache, status, auth>>]_vars

\* a query with a non-empty profile block list is answered while no cache is
\* stored
C18_Witness ==
    /\ cache = NoCache
    /\ resp # NoResp
    /\ resp.profileBlocks # << >>

----------------------------------------------------------------------------
(* types.ts (bloom build): the bloom filter.  An item is the sequence of    *)
(* the char codes of a DID, a 32-bit word the pair <<high, low>> of its     *)
(* 16-bit halves, and a base64 string the sequence of the alphabet indices  *)
(* of its characters, with 64 for the padding character                     *)

DEFAULT_BITS_PER_ELEMENT == 10
DEFAULT_NUM_HASHES == 7

\* the DIDs "p1", "p2", "p7", "q1" and "q4"
P1 == <<112, 49>>
P2 == <<112, 50>>
P7 == <<112, 55>>
Q1 == <<113, 49>>
Q4 == <<113, 52>>

BloomItems == {P1, P2, P7, Q1, Q4}

\* 2166136261 and 16777619
FnvOffsetBasis == <<33052, 40389>>
FnvPrime == <<256, 403>>

\* a ^ b on 16-bit values
RECURSIVE Xor(_, _)
Xor(a, b) ==
    IF a = 0 THEN b
    ELSE IF b = 0 THEN a
    ELSE ((a + b) % 2) + 2 * Xor(a \div 2, b \div 2)

XorWord(w, v) == <<Xor(w[1], v[1]), Xor(w[2], v[2])>>

\* Math.imul(w, c): the low 32 bits of the product
Imul(w, c) ==
    LET low == w[2] * c[2]
        high == w[1] * c[2] + w[2] * c[1] + low \div 65536
    IN  <<high % 65536, low % 65536>>

\* the loop of fnv1a from position k of the string
RECURSIVE FnvLoop(_, _, _)
FnvLoop(str, k, hash) ==
    IF k > Len(str) THEN hash
    ELSE FnvLoop(str, k + 1, Imul(XorWord(hash, <<0, str[k]>>), FnvPrime))

\* fnv1a(str, seed), as an unsigned 32-bit word
Fnv1a(str, seed) == FnvLoop(str, 1, XorWord(FnvOffsetBasis, seed))

\* w % size
ModWord(w, size) ==
    ((w[1] % size) * (65536 % size) + (w[2] % size)) % size

\* getHashValues: (h1 + i * h2) % size for i = 0 .. numHashes - 1; the sum
\* is below 2^53, so the program computes it exactly, and it is reduced here
\* term by term
GetHashValues(item, numHashes, size) ==
    LET h1 == Fnv1a(item, <<0, 0>>)
        h2 == Fnv1a(item, h1)
    IN  [i \in 1..numHashes |->
            (ModWord(h1, size) + (i - 1) * ModWord(h2, size)) % size]

\* uint8ArrayToBase64: btoa of the bytes
RECURSIVE Uint8ArrayToBase64(_)
Uint8ArrayToBase64(bytes) ==
    IF Len(bytes) = 0 THEN << >>
    ELSE IF Len(bytes) = 1
    THEN <<bytes[1] \div 4, (bytes[1] % 4) * 16, 64, 64>>
    ELSE IF Len(bytes) = 2
    THEN <<bytes[1] \div 4, (bytes[1] % 4) * 16 + bytes[2] \div 16,
           (bytes[2] % 16) * 4, 64>>
    ELSE <<bytes[1] \div 4, (bytes[1] % 4) * 16 + bytes[2] \div 16,
           (bytes[2] % 16) * 4 + bytes[3] \div 64, bytes[3] % 64>>
         \o Uint8ArrayToBase64(SubSeq(bytes, 4, Len(bytes)))

\* a decoder that takes the padding character for six zero bits
DecodePaddingAsZero(base64) ==
    [k \in 1..(3 * (Len(base64) \div 4)) |->
        LET q == 4 * ((k - 1) \div 3)
            c == [j \in 1..4 |-> base64[q + j] % 64]
        IN  CASE (k - 1) % 3 = 0 -> c[1] * 4 + c[2] \div 16
              [] (k - 1) % 3 = 1 -> (c[2] % 16) * 16 + c[3] \div 4
              [] OTHER -> (c[3] % 4) * 64 + c[4]]

\* base64ToUint8Array: the bytes of atob
RECURSIVE Base64ToUint8Array(_)
Base64ToUint8Array(base64) ==
    IF Len(base64) = 0 THEN << >>
    ELSE LET c == SubSeq(base64, 1, 4)
             b1 == c[1] * 4 + c[2] \div 16
             b2 == (c[2] % 16) * 16 + c[3] \div 4
             b3 == (c[3] % 4) * 64 + c[4]
         IN  (IF c[3] = 64 THEN <<b1>>
              ELSE IF c[4] = 64 THEN <<b1, b2>>
              ELSE <<b1, b2, b3>>)
             \o Base64ToUint8Array(SubSeq(base64, 5, Len(base64)))

\* 1 << bitIndex
Bit(bitIndex) == 2 ^ bitIndex

\* bytes[byteIndex] & (1 << bitIndex) is not 0
BitIsSet(bytes, hash) == (bytes[hash \div 8 + 1] \div Bit(hash % 8)) % 2 = 1

\* bytes[byteIndex] |= 1 << bitIndex, for the hashes from position k on
RECURSIVE SetBits(_, _, _)
SetBits(bytes, hashes, k) ==
    IF k > Len(hashes) THEN bytes
    ELSE SetBits(
            IF BitIsSet(bytes, hashes[k]) THEN bytes
            ELSE [bytes EXCEPT ![hashes[k] \div 8 + 1] = @ + Bit(hashes[k] % 8)],
            hashes, k + 1)

\* createBloomFilter with the default parameters
CreateBloomFilter(expectedElements) ==
    LET n == expectedElements * DEFAULT_BITS_PER_ELEMENT
        size == IF n > 64 THEN n ELSE 64
        byteSize == (size + 7) \div 8
    IN  [bits |-> Uint8ArrayToBase64([k \in 1..byteSize |-> 0]),
         size |-> size, numHashes |-> DEFAULT_NUM_HASHES, count |-> 0]

\* an add that starts from an empty bit array
BloomFilterAddFresh(filter, item) ==
    [filter EXCEPT
        !.bits = Uint8ArrayToBase64(
                    SetBits([k \in 1..Len(Base64ToUint8Array(filter.bits)) |-> 0],
                            GetHashValues(item, filter.numHashes, filter.size),
                            1)),
        !.count = @ + 1]

\* bloomFilterAdd
BloomFilterAdd(filter, item) ==
    [filter EXCEPT
        !.bits = Uint8ArrayToBase64(
                    SetBits(Base64ToUint8Array(filter.bits),
                            GetHashValues(item, filter.numHashes, filter.size),
                            1)),
        !.count = @ + 1]

\* bloomFilterMightContain
BloomFilterMightContain(filter, item) ==
    LET bytes == Base64ToUint8Array(filter.bits)
        hashes == GetHashValues(item, filter.numHashes, filter.size)
    IN  \A k \in 1..Len(hashes) : BitIsSet(bytes, hashes[k])

\* the loop of bloomFilterFromArray from position k of the items
RECURSIVE AddAll(_, _, _)
AddAll(filter, items, k) ==
    IF k > Len(items) THEN filter
    ELSE AddAll(BloomFilterAdd(filter, items[k]), items, k + 1)

\* bloomFilterFromArray
BloomFilterFromArray(items) == AddAll(CreateBloomFilter(Len(items)), items, 1)

----------------------------------------------------------------------------
(* FilterSpec: a filter made by createBloomFilter (bloomFilterFromArray of  *)
(* no items) or by bloomFilterFromArray, of 64 or of 70 bits, and any       *)
(* sequence of up to MaxAdds bloomFilterAdd calls on it                     *)

MaxAdds == 4

FilterLists ==
    {<< >>, <<P1>>, <<P7, P2>>, <<P1, P1, P1, P1, P1, P1, Q1>>}

FilterInit ==
    /\ bloom \in {[filter |-> BloomFilterFromArray(items),
                   added |-> {items[k] : k \in 1..Len(items)},
                   adds |-> 0] : items \in FilterLists}
    /\ status = NoStatus
    /\ cache = NoCache
    /\ auth = NoAuth
    /\ now = 0
    /\ inv = [i \in Procs |-> IdleInv]
    /\ resp = NoResp
    /\ kills = 0
    /\ starts = 0
    /\ hist = NoHist
    /\ query = NoQuery

\* a bloomFilterAdd call
BloomAdd(item) ==
    /\ bloom.adds < MaxAdds
    /\ bloom' = [filter |-> BloomFilterAdd(bloom.filter, item),
                 added |-> bloom.added \cup {item},
                 adds |-> bloom.adds + 1]
    /\ UNCHANGED <<status, cache, auth, now, inv, resp, kills, starts, hist,
                   query>>

FilterNext == \E item \in BloomItems : BloomAdd(item)

FilterSpec == FilterInit /\ [][FilterNext]_vars

\* C20: bloomFilterMightContain is true of every item that has been added to
\* the filter, at every point of a sequence of adds
C20_NoFalseNegatives ==
    bloom # NoBloom =>
        \A item \in bloom.added : BloomFilterMightContain(bloom.filter, item)

\* after adds on top of the filter the test is false of an item that was not
\* added and true of another item that was not added (a false positive)
C20_Witness ==
    /\ bloom # NoBloom
    /\ bloom.adds >= 2
    /\ \E item \in BloomItems \ bloom.added :
          ~BloomFilterMightContain(bloom.filter, item)
    /\ \E item \in BloomItems \ bloom.added :
          BloomFilterMightContain(bloom.filter, item)

----------------------------------------------------------------------------
(* SerialSpec: a byte array is encoded by uint8ArrayToBase64 (the bits      *)
(* field written to storage) and the string is decoded by                   *)
(* base64ToUint8Array (the filter read back).  The arrays are every array   *)
(* of up to three bytes over ByteValues, read as filters of 8 bits per byte, *)
(* and the bit arrays of the filters bloomFilterFromArray makes of 0 to 8   *)
(* items (8, 9 and 10 bytes)                                               *)

ByteValues == {0, 1, 77, 128, 255}

SerialFilterLists == FilterLists \cup {<<P1, P1, P1, P1, P1, P1, P1, P2>>}

SerialArrays ==
    {[bytes |-> b, size |-> 8 * Len(b)] :
        b \in UNION {[1..n -> ByteValues] : n \in 0..3}}
    \cup {[bytes |-> Base64ToUint8Array(BloomFilterFromArray(items).bits),
           size |-> BloomFilterFromArray(items).size] :
              items \in SerialFilterLists}

SerialInit ==
    /\ bloom \in {[stage |-> "bytes", bytes |-> a.bytes, size |-> a.size,
                   bits |-> << >>, reloaded |-> << >>] : a \in SerialArrays}
    /\ status = NoStatus
    /\ cache = NoCache
    /\ auth = NoAuth
    /\ now = 0
    /\ inv = [i \in Procs |-> IdleInv]
    /\ resp = NoResp
    /\ kills = 0
    /\ starts = 0
    /\ hist = NoHist
    /\ query = NoQuery

\* uint8ArrayToBase64(bytes): the string a filter keeps in its bits field
Serialize ==
    /\ bloom.stage = "bytes"
    /\ bloom' = [bloom EXCEPT !.stage = "stored",
                              !.bits = Uint8ArrayToBase64(bloom.bytes)]
    /\ UNCHANGED <<status, cache, auth, now, inv, resp, kills, starts, hist,
                   query>>

\* base64ToUint8Array(filter.bits)
Deserialize ==
    /\ bloom.stage = "stored"
    /\ bloom' = [bloom EXCEPT !.stage = "loaded",
                              !.reloaded = Base64ToUint8Array(bloom.bits)]
    /\ UNCHANGED <<status, cache, auth, now, inv, resp, kills, starts, hist,
                   query>>

SerialNext == Serialize \/ Deserialize

SerialSpec == SerialInit /\ [][SerialNext]_vars

\* C21: the decoded bytes of an encoded byte array have the length of the
\* array and the same bits at every position, and a filter over the decoded
\* bytes answers bloomFilterMightContain for every item as the bit test on
\* the array before encoding does
C21_SerializationRoundTrip ==
    (bloom # NoBloom /\ bloom.stage = "loaded") =>
        /\ Len(bloom.reloaded) = Len(bloom.bytes)
        /\ \A k \in 1..Len(bloom.bytes) : \A bit \in 0..7 :
              (bloom.reloaded[k] \div Bit(bit)) % 2
                  = (bloom.bytes[k] \div Bit(bit)) % 2
        /\ bloom.size > 0 =>
              \A item \in BloomItems :
                 LET filter == [bits |-> bloom.bits, size |-> bloom.size,
                                numHashes |-> DEFAULT_NUM_HASHES,
                                count |-> 0]
                     again == [filter EXCEPT
                                  !.bits = Uint8ArrayToBase64(bloom.reloaded)]
                     hashes == GetHashValues(item, DEFAULT_NUM_HASHES,
                                             bloom.size)
                 IN  /\ BloomFilterMightContain(again, item)
                        = BloomFilterMightContain(filter, item)
                     /\ BloomFilterMightContain(filter, item)
                        = \A k \in 1..Len(hashes) :
                             BitIsSet(bloom.bytes, hashes[k])

\* an array whose encoding ends in padding has been encoded and decoded, and
\* the filter over it contains one item and lacks another
C21_Witness ==
    /\ bloom # NoBloom
    /\ bloom.stage = "loaded"
    /\ Len(bloom.bytes) % 3 = 1
    /\ Len(bloom.bytes) > 3
    /\ \E k \in 1..Len(bloom.bits) : bloom.bits[k] = 64
    /\ LET filter == [bits |-> bloom.bits, size |-> bloom.size,
                      numHashes |-> DEFAULT_NUM_HASHES, count |-> 0]
       IN  /\ \E item \in BloomItems : BloomFilterMightContain(filter, item)
           /\ \E item \in BloomItems : ~BloomFilterMightContain(filter, item)

----------------------------------------------------------------------------
(* storage.ts and background.ts (bloom build): the query.  An entry of the  *)
(* cache holds the bloom filter of the block list instead of the list       *)

\* the userCache a pass of the bloom build stores for a user
BloomEntry(user, blocks) ==
    [did |-> user, bloomFilter |-> BloomFilterFromArray(blocks),
     blockCount |-> Len(blocks)]

\* getCandidateBlockers: the followed users, in followedUsers order, whose
\* filter might contain profileDid
GetCandidateBlockers(profileDid, c) ==
    IF c = NoCache THEN << >>
    ELSE SelectSeq(c.followedUsers,
            LAMBDA u :
                /\ u \in DOMAIN c.userBlockCaches
                /\ BloomFilterMightContain(c.userBlockCaches[u].bloomFilter,
                                           profileDid))

\* a verification that takes every candidate without a fetch
VerifiedWithoutFetch(candidates, live, profileDid) ==
    {candidates[k] : k \in 1..Len(candidates)}

\* the verification of the handler: the candidates whose getUserBlocks call
\* returned a list that includes profileDid
VerifiedBlockers(candidates, live, profileDid) ==
    {u \in {candidates[k] : k \in 1..Len(candidates)} :
        /\ live[u].res = "ok"
        /\ \E k \in 1..Len(live[u].blocks) : live[u].blocks[k] = profileDid}

\* lookupBlockingInfo of the bloom build
LookupBlockingInfoBloom(profileDid, verifiedBlockers, profileBlocks, c) ==
    IF c = NoCache THEN [blockedBy |-> << >>, blocking |-> << >>]
    ELSE [blockedBy |-> SelectSeq(c.followedUsers,
                            LAMBDA u : u \in verifiedBlockers),
          blocking |-> SelectSeq(profileBlocks,
              LAMBDA d : \E k \in 1..Len(c.followedUsers) :
                            c.followedUsers[k] = d)]

\* the block lists behind the stored filters, and what a verification fetch
\* can give
BloomBlockLists == {<<P7>>, <<P1>>, <<P1, Q4>>}
LiveResults ==
    {Failed, Fetched(<< >>), Fetched(<<P7>>), Fetched(<<P1, Q4>>)}

BloomUsers == {"u1", "u2"}
BloomFollowLists == {<<"u1">>, <<"u2", "u1">>}
VerifyProfiles == {P7, Q4}

BloomCaches ==
    {[followedUsers |-> f,
      userBlockCaches |-> [u \in us |-> BloomEntry(u, b[u])],
      currentUserDid |-> "X"] :
        f \in BloomFollowLists,
        us \in SUBSET BloomUsers,
        b \in [BloomUsers -> BloomBlockLists]}

\* GET_BLOCKING_INFO up to the end of the verification: the candidates of
\* the stored cache and the outcome of each verification fetch
QueryStart(profileDid) ==
    /\ query = NoQuery
    /\ LET candidates == GetCandidateBlockers(profileDid, cache)
       IN  \E live \in [{candidates[k] : k \in 1..Len(candidates)}
                            -> LiveResults] :
           \E profileBlocks \in ProfileBlockLists :
              query' = [profileDid |-> profileDid,
                        candidates |-> candidates,
                        live |-> live,
                        verifiedBlockers |->
                            VerifiedBlockers(candidates, live, profileDid),
                        profileBlocks |-> profileBlocks]
    /\ resp' = NoResp
    /\ UNCHANGED <<status, cache, auth, now, inv, kills, starts, hist, bloom>>

\* the rest of GET_BLOCKING_INFO: lookupBlockingInfo reads the cache again
\* and the response is sent (recorded with the candidates and the fetches)
QueryFinish ==
    /\ query # NoQuery
    /\ resp' = [profileDid |-> query.profileDid,
                profileBlocks |-> query.profileBlocks,
                candidates |-> query.candidates,
                live |-> query.live,
                blockingInfo |->
                    LookupBlockingInfoBloom(query.profileDid,
                        query.verifiedBlockers, query.profileBlocks, cache)]
    /\ query' = NoQuery
    /\ UNCHANGED <<status, cache, auth, now, inv, kills, starts, hist, bloom>>

\* a pass saves its cache while a query is in flight
SyncStore ==
    /\ \E c \in BloomCaches : c # cache /\ cache' = c
    /\ resp' = NoResp
    /\ UNCHANGED <<status, auth, now, inv, kills, starts, hist, bloom, query>>

----------------------------------------------------------------------------
(* VerifySpec: profile pages are viewed under the bloom build, with no      *)
(* cache stored or one with one or two followed users and filters of the    *)
(* block lists of any of them, while passes replace the stored cache        *)

VerifyInit ==
    /\ cache \in BloomCaches \cup {NoCache}
    /\ status = NoStatus
    /\ auth = "X"
    /\ now = 0
    /\ inv = [i \in Procs |-> IdleInv]
    /\ resp = NoResp
    /\ kills = 0
    /\ starts = 0
    /\ hist = NoHist
    /\ bloom = NoBloom
    /\ query = NoQuery

VerifyNext ==
    \/ \E p \in VerifyProfiles : QueryStart(p)
    \/ QueryFinish
    \/ SyncStore

VerifySpec == VerifyInit /\ [][VerifyNext]_vars

\* C19: every user in the blockedBy of an answer of the bloom build is a
\* followed user, was a candidate of the filters, and its block list fetched
\* in this query contains the profile id; a candidate whose fetch threw or
\* whose fetched list lacks the profile id is not in blockedBy
C19_OnlyVerifiedBlockers ==
    [][resp' # NoResp =>
          /\ \A u \in Range(resp'.blockingInfo.blockedBy) :
                /\ u \in Range(cache.followedUsers)
                /\ u \in Range(query.candidates)
                /\ query.live[u].res = "ok"
                /\ query.profileDid \in Range(query.live[u].blocks)
          /\ \A u \in Range(query.candidates) :
                (\/ query.live[u].res = "throw"
                 \/ query.profileDid \notin Range(query.live[u].blocks))
                => u \notin Range(resp'.blockingInfo.blockedBy)]_vars

\* an answer lists a verified candidate and leaves out another candidate,
\* whose filter gave a false positive or whose fetch threw
C19_Witness ==
    /\ resp # NoResp
    /\ Len(resp.blockingInfo.blockedBy) > 0
    /\ \E u \in Range(resp.candidates) :
          /\ u \notin Range(resp.blockingInfo.blockedBy)
          /\ \/ resp.live[u].res = "throw"
             \/ resp.profileDid \notin Range(resp.live[u].blocks)

----------------------------------------------------------------------------
(* StatusSpec: updateSyncStatus calls with any partial status, on a stored  *)
(* status or none, while other writers store a status between the read and  *)
(* the write of a call and time passes                                      *)

StoredStatuses ==
    {NoStatus,
     [totalFollows |-> 2, syncedFollows |-> 1, lastSync |-> 1,
      isRunning |-> TRUE, lastUpdated |-> 1, errors |-> <<"e">>],
     [totalFollows |-> 100, syncedFollows |-> 0, lastSync |-> 0,
      isRunning |-> FALSE, lastUpdated |-> 0, errors |-> << >>]}

\* the partial statuses of the calls of the program, and partial statuses
\* that name lastUpdated themselves
Partials ==
    {[isRunning |-> FALSE],
     [isRunning |-> TRUE, errors |-> << >>, syncedFollows |-> 0],
     [syncedFollows |-> 1, totalFollows |-> 3],
     [isRunning |-> FALSE, lastSync |-> 1, syncedFollows |-> 3,
      totalFollows |-> 3, errors |-> <<"u2">>],
     [isRunning |-> FALSE, errors |-> <<"Failed to get follows">>],
     [isRunning |-> TRUE, syncedFollows |-> 50],
     [lastUpdated |-> 7],
     [isRunning |-> TRUE, lastUpdated |-> 7]}

StatusInit ==
    /\ status \in StoredStatuses
    /\ cache = NoCache
    /\ auth = NoAuth
    /\ now = 0
    /\ inv = [i \in Procs |-> IdleInv]
    /\ resp = NoResp
    /\ kills = 0
    /\ starts = 0
    /\ hist = NoHist
    /\ bloom = NoBloom
    /\ query = NoQuery

\* updateSyncStatus(partial) up to the end of its getSyncStatus
UpdateRead(partial) ==
    /\ IF query = NoQuery THEN TRUE ELSE query.pc = "done"
    /\ query' = [pc |-> "write", partial |-> partial,
                 current |-> GetSyncStatus(status)]
    /\ UNCHANGED <<status, cache, auth, now, inv, resp, kills, starts, hist,
                   bloom>>

\* the storage.local.set of the call
UpdateWrite ==
    /\ query # NoQuery
    /\ query.pc = "write"
    /\ status' = UpdateSyncStatus(query.current, query.partial, now)
    /\ query' = [query EXCEPT !.pc = "done"]
    /\ UNCHANGED <<cache, auth, now, inv, resp, kills, starts, hist, bloom>>

\* another call stores a status while this one is between read and write
OtherWrite ==
    /\ query # NoQuery
    /\ query.pc = "write"
    /\ \E st \in StoredStatuses \ {NoStatus} : st # status /\ status' = st
    /\ UNCHANGED <<cache, auth, now, inv, resp, kills, starts, hist, bloom,
                   query>>

StatusNext ==
    \/ \E partial \in Partials : UpdateRead(partial)
    \/ UpdateWrite
    \/ OtherWrite
    \/ Tick /\ UNCHANGED <<hist, bloom, query>>

StatusSpec == StatusInit /\ [][StatusNext]_vars

StatusFields ==
    {"totalFollows", "syncedFollows", "lastSync", "isRunning", "lastUpdated",
     "errors"}

\* C22: the status an updateSyncStatus(partial) call stores has the value of
\* the partial in every field the partial names other than lastUpdated, the
\* value the call read (the default when nothing was stored) in every other
\* field, and the time of the write in lastUpdated, whatever the partial says
C22_StatusMerge ==
    [][(query # NoQuery /\ query.pc = "write" /\ query'.pc = "done") =>
          /\ DOMAIN status' = StatusFields
          /\ \A f \in DOMAIN query.partial \ {"lastUpdated"} :
                status'[f] = query.partial[f]
          /\ \A f \in StatusFields \ (DOMAIN query.partial \cup {"lastUpdated"}) :
                status'[f] = query.current[f]
          /\ status'.lastUpdated = now]_vars

\* a call whose partial names isRunning and a lastUpdated of 7 has stored
\* the time of its write, 1, and kept the totalFollows it read
C22_Witness ==
    /\ query # NoQuery
    /\ query.pc = "done"
    /\ "lastUpdated" \in DOMAIN query.partial
    /\ "isRunning" \in DOMAIN query.partial
    /\ status.lastUpdated = now
    /\ now = 1
    /\ status.totalFollows = 100
    /\ status.isRunning

----------------------------------------------------------------------------
(* performFullSync without an auth *)

\* C23: a performFullSync that finds no auth (or none with a did) at its
\* getStoredAuth returns there: it has called neither getAllFollows nor
\* getUserBlocks and has loaded no cache, the step writes neither the status
\* nor the cache, so no error is recorded, and isRunning is false when it
\* returns; on its way there it has written the status, if at all, only
\* with isRunning false
C23_MissingAuthIsNoOp ==
    [][\A i \in Procs :
          /\ (inv[i].pc = "auth" /\ auth = NoAuth /\ Steps(i)) =>
                /\ inv'[i] = Returned("no auth")
                /\ inv[i].follows = << >>
                /\ \A u \in Users : inv[i].got[u] = NoResult
                /\ inv[i].mem = NoCache
                /\ inv[i].persists = 0
                /\ status' = status
                /\ cache' = cache
                /\ ~GetSyncStatus(status').isRunning
          /\ (inv[i].pc \in {"start", "resetR", "resetW", "auth"} /\ Steps(i)) =>
                /\ cache' = cache
                /\ status' # status => ~status'.isRunning]_vars

\* a pass started by CLEAR_CACHE has returned for want of an auth
C23_Witness ==
    /\ auth = NoAuth
    /\ \E i \in Procs : inv[i].exit = "no auth"
    /\ status # NoStatus
    /\ cache # NoCache

----------------------------------------------------------------------------
(* What aborts a pass *)

\* invocation i enters the catch block of performFullSync
Aborts(i) == inv'[i].pc = "catchR" /\ inv[i].pc # "catchR"

----------------------------------------------------------------------------
(* ClearSpec: the CLEAR_CACHE handler with one action per operation it      *)
(* awaits, on an installation with an auth stored, while up to              *)
(* MaxOtherPasses passes started by the alarm run beside it (two invocation *)
(* slots, follow lists of at most one user) and time passes                 *)

MaxOtherPasses == 1

\* the partial status of CLEAR_CACHE
ClearedStatus ==
    [totalFollows |-> 0, syncedFollows |-> 0, lastSync |-> 0,
     isRunning |-> FALSE, errors |-> << >>]

\* CLEAR_CACHE: saveBlockCache(createEmptyCache(''))
ClearSave ==
    /\ query = NoQuery
    /\ cache' = CreateEmptyCache("")
    /\ query' = [pc |-> "statusR", current |-> NoStatus, started |-> 0]
    /\ resp' = NoResp
    /\ UNCHANGED <<status, auth, now, inv, kills, starts, hist, bloom>>

\* CLEAR_CACHE: the getSyncStatus of its updateSyncStatus
ClearStatusRead ==
    /\ query # NoQuery
    /\ query.pc = "statusR"
    /\ query' = [query EXCEPT !.pc = "statusW",
                              !.current = GetSyncStatus(status)]
    /\ resp' = NoResp
    /\ UNCHANGED <<status, cache, auth, now, inv, kills, starts, hist, bloom>>

\* CLEAR_CACHE: the write of its updateSyncStatus
ClearStatusWrite ==
    /\ query # NoQuery
    /\ query.pc = "statusW"
    /\ status' = UpdateSyncStatus(query.current, ClearedStatus, now)
    /\ query' = [query EXCEPT !.pc = "delay", !.current = NoStatus]
    /\ resp' = NoResp
    /\ UNCHANGED <<cache, auth, now, inv, kills, starts, hist, bloom>>

\* CLEAR_CACHE: the delay is over, performFullSync() is called and not
\* awaited, and sendResponse({success: true})
ClearStart ==
    /\ query # NoQuery
    /\ query.pc = "delay"
    /\ \E i \in Procs :
          /\ Invoke(i)
          /\ query' = [query EXCEPT !.pc = "done", !.started = i]
    /\ resp' = [success |-> TRUE]
    /\ UNCHANGED <<status, cache, auth, now, kills, hist, bloom>>

ClearInit ==
    /\ status = NoStatus
    /\ cache = NoCache
    /\ auth = "X"
    /\ now = 0
    /\ inv = [i \in Procs |-> IdleInv]
    /\ resp = NoResp
    /\ kills = 0
    /\ starts = 0
    /\ hist = NoHist
    /\ bloom = NoBloom
    /\ query = NoQuery

\* the alarm starts no further pass once the pass of the handler is started
ClearNext ==
    \/ \E i \in Procs :
          /\ starts < MaxOtherPasses
          /\ IF query = NoQuery THEN TRUE ELSE query.pc # "done"
          /\ TriggerSync(i)
          /\ UNCHANGED <<hist, bloom, query>>
    \/ \E i \in Procs :
          Step(i, ShortFollowLists) /\ UNCHANGED <<hist, bloom, query>>
    \/ ClearSave
    \/ ClearStatusRead
    \/ ClearStatusWrite
    \/ ClearStart
    \/ Tick /\ UNCHANGED <<hist, bloom, query>>

ClearSpec == ClearInit /\ [][ClearNext]_vars

\* the handler stores the empty cache first, and nothing else in that step
ClearStoresCacheFirst ==
    [][(query = NoQuery /\ query' # NoQuery) =>
          /\ cache' = CreateEmptyCache("")
          /\ status' = status
          /\ inv' = inv]_vars

\* the handler then stores the reset status, before it starts a pass
ClearStoresStatusNext ==
    [][(query # NoQuery /\ query.pc = "statusW" /\ query' # query) =>
          /\ status'.totalFollows = 0
          /\ status'.syncedFollows = 0
          /\ status'.lastSync = 0
          /\ ~status'.isRunning
          /\ status'.errors = << >>
          /\ query.started = 0
          /\ inv' = inv]_vars

\* the handler then starts a pass and answers {success: true}
ClearStartsPassLast ==
    [][(query # NoQuery /\ query.pc = "delay" /\ query' # query) =>
          /\ \E i \in Procs : /\ inv[i].pc = "idle"
                              /\ inv'[i].pc = "start"
                              /\ query'.started = i
          /\ resp' = [success |-> TRUE]
          /\ status' = status
          /\ cache' = cache]_vars

\* the pass the handler started is not skipped at its lock test
ClearPassNotSkipped ==
    [][\A i \in Procs :
          (/\ query # NoQuery
           /\ query.pc = "done"
           /\ query.started = i
           /\ inv[i].pc = "start"
           /\ Steps(i)) => inv'[i].exit # "skipped"]_vars

\* C25: CLEAR_CACHE stores an empty cache, then a status with totalFollows,
\* syncedFollows and lastSync 0, isRunning false and no errors, then starts
\* a performFullSync and answers {success: true}; and that performFullSync
\* is not skipped at its lock test
C25_ClearCacheOrdering ==
    /\ ClearStoresCacheFirst
    /\ ClearStoresStatusNext
    /\ ClearStartsPassLast
    /\ ClearPassNotSkipped

----------------------------------------------------------------------------
(* MessageSpec: handleMessage and handleSyncMessage.  Up to MaxMessages     *)
(* messages of every type arrive one after the other on an installation     *)
(* with or without an auth; the worker keeps running, so the handler and    *)
(* the pass a message starts (one slot, follow lists of at most one user)   *)
(* take their steps.  query holds the message in hand, the number of        *)
(* sendResponse calls made for it and the response sent.  A handler that    *)
(* awaits a storage call can find it throwing, which is taken at its first  *)
(* storage call                                                             *)

MaxMessages == 2

\* a message without a profileDid answers at once
ProfileDidNeverMissing(message) == FALSE

\* the test !message.profileDid ("" stands for a field that is not there)
MissingProfileDid(message) == message.profileDid = ""

Messages ==
    {[type |-> t, auth |-> a, profileDid |-> p] :
        t \in {"TRIGGER_SYNC", "SET_AUTH", "GET_BLOCKING_INFO",
               "FETCH_PROFILE_BLOCKS", "GET_SYNC_STATUS", "CLEAR_CACHE",
               "PING"},
        a \in {"", "X"}, p \in {"", "p1"}}

\* the types whose handler awaits a storage call before anything else
AwaitsStorage(message) ==
    \/ message.type \in {"GET_SYNC_STATUS", "CLEAR_CACHE"}
    \/ message.type = "SET_AUTH" /\ message.auth # ""
    \/ message.type = "GET_BLOCKING_INFO" /\ ~MissingProfileDid(message)

\* the message in hand after sendResponse(answer)
Answered(answer) ==
    [query EXCEPT !.pc = "done", !.sent = @ + 1, !.answer = answer]

\* handleMessage: TRIGGER_SYNC calls performFullSync() and answers when its
\* promise settles; every other message goes to handleSyncMessage
HandleMessage(message) ==
    /\ IF query = NoQuery THEN TRUE
       ELSE query.pc = "done" /\ query.n < MaxMessages
    /\ query' = [message |-> message, pc |-> "handling", sent |-> 0,
                 answer |-> NoResp,
                 n |-> IF query = NoQuery THEN 1 ELSE query.n + 1]
    /\ IF message.type = "TRIGGER_SYNC"
       THEN Invoke(1)
       ELSE UNCHANGED <<inv, starts>>
    /\ resp' = NoResp
    /\ UNCHANGED <<status, cache, auth, now, kills, hist, bloom>>

\* the promise of performFullSync has resolved: sendResponse({success: true})
TriggerSyncDone ==
    /\ query # NoQuery
    /\ query.pc = "handling"
    /\ query.message.type = "TRIGGER_SYNC"
    /\ inv[1].pc = "idle"
    /\ query' = Answered([success |-> TRUE])
    /\ resp' = NoResp
    /\ UNCHANGED <<status, cache, auth, now, inv, kills, starts, hist, bloom>>

\* handleSyncMessage: the case of the message type, or the catch block
HandleSyncMessage ==
    /\ query # NoQuery
    /\ query.pc = "handling"
    /\ query.message.type # "TRIGGER_SYNC"
    /\ LET message == query.message
           Quiet == /\ resp' = NoResp
                    /\ UNCHANGED <<status, cache, auth, now, inv, kills,
                                   starts>>
       IN  \/ /\ AwaitsStorage(message)
              /\ query' = Answered([success |-> FALSE,
                                    error |-> "storage error"])
              /\ Quiet
           \/ /\ message.type = "SET_AUTH"
              /\ IF message.auth = "" THEN Quiet
                 ELSE SetAuth(message.auth, {1})
              /\ query' = Answered([success |-> TRUE])
           \/ /\ message.type \in {"GET_BLOCKING_INFO", "FETCH_PROFILE_BLOCKS"}
              /\ MissingProfileDid(message)
              /\ query' = Answered([success |-> FALSE,
                                    error |-> "Missing profileDid"])
              /\ Quiet
           \/ /\ message.type = "GET_BLOCKING_INFO"
              /\ ~MissingProfileDid(message)
              /\ GetBlockingInfo(message.profileDid)
              /\ query' = Answered([success |-> TRUE,
                                    blockingInfo |-> resp'.blockingInfo])
           \/ /\ message.type = "FETCH_PROFILE_BLOCKS"
              /\ ~MissingProfileDid(message)
              /\ \/ \E blocks \in ProfileBlockLists :
                       query' = Answered([success |-> TRUE,
                                          blocks |-> blocks])
                 \/ query' = Answered([success |-> FALSE,
                                       error |-> "Failed to fetch blocks"])
              /\ Quiet
           \/ /\ message.type = "GET_SYNC_STATUS"
              /\ query' = Answered([success |-> TRUE,
                                    syncStatus |-> GetSyncStatus(status)])
              /\ Quiet
           \/ /\ message.type = "CLEAR_CACHE"
              /\ ClearCache({1})
              /\ query' = Answered([success |-> TRUE])
           \/ /\ message.type = "PING"
              /\ query' = Answered([success |-> FALSE,
                                    error |-> "Unknown message type"])
              /\ Quiet
    /\ UNCHANGED <<hist, bloom>>

\* a step of the pass in flight
MessagePassStep ==
    Step(1, ShortFollowLists) /\ UNCHANGED <<hist, bloom, query>>

MessageInit ==
    /\ status = NoStatus
    /\ cache = NoCache
    /\ auth \in {NoAuth, "X"}
    /\ now = 0
    /\ inv = [i \in Procs |-> IdleInv]
    /\ resp = NoResp
    /\ kills = 0
    /\ starts = 0
    /\ hist = NoHist
    /\ bloom = NoBloom
    /\ query = NoQuery

MessageNext ==
    \/ \E message \in Messages : HandleMessage(message)
    \/ TriggerSyncDone
    \/ HandleSyncMessage
    \/ MessagePassStep

MessageSpec ==
    /\ MessageInit
    /\ [][MessageNext]_vars
    /\ WF_vars(TriggerSyncDone)
    /\ WF_vars(HandleSyncMessage)
    /\ WF_vars(MessagePassStep)

\* the response the message in hand may get from its case
CaseAnswer(message, answer) ==
    CASE message.type \in {"GET_BLOCKING_INFO", "FETCH_PROFILE_BLOCKS"}
             /\ message.profileDid = "" ->
            answer = [success |-> FALSE, error |-> "Missing profileDid"]
      [] message.type = "PING" ->
            answer = [success |-> FALSE, error |-> "Unknown message type"]
      [] message.type = "TRIGGER_SYNC" -> answer = [success |-> TRUE]
      [] OTHER ->
            \/ answer.success
            \/ /\ DOMAIN answer = {"success", "error"}
               /\ answer.error \in {"storage error", "Failed to fetch blocks"}

----------------------------------------------------------------------------
(* api.ts: the paged remote calls.  ApiSpec runs one getUserBlocks or one   *)
(* getAllFollows call against a remote whose records come in pages, a page  *)
(* carrying a cursor when another follows; query holds the call: the pages  *)
(* of the remote, the page asked for, the retries fetchWithRetry has left   *)
(* for it, the items collected and the outcome                              *)

\* retries of fetchWithRetry
FETCH_RETRIES == 3

\* the pages of block records ("" is a record without value.subject)
BlockPages ==
    {<<<< >>>>, <<<<"p1">>>>, <<<<"p1", "">>, <<"p2">>>>,
     <<<<"p1">>, <<"p2">>, <<"p3", "p4">>>>}

\* the pages of follows
FollowPages ==
    {<<<< >>>>, <<<<"u1">>>>, <<<<"u2", "u1">>, <<"u3">>>>,
     <<<<"u1">>, <<"u2">>, <<"u3", "u4">>>>}

\* the concatenation of the pages from page k on
RECURSIVE Concat(_, _)
Concat(pages, k) ==
    IF k > Len(pages) THEN << >> ELSE pages[k] \o Concat(pages, k + 1)

\* the records of a page a call keeps: getUserBlocks keeps the subjects
Collected(fn, page) ==
    IF fn = "getUserBlocks" THEN SelectSeq(page, LAMBDA r : r # "")
    ELSE page

ApiInit ==
    /\ query \in {[fn |-> "getUserBlocks", pages |-> p, page |-> 1,
                   retries |-> FETCH_RETRIES, items |-> << >>,
                   result |-> NoResult] : p \in BlockPages}
             \cup {[fn |-> "getAllFollows", pages |-> p, page |-> 1,
                    retries |-> FETCH_RETRIES, items |-> << >>,
                    result |-> NoResult] : p \in FollowPages}
    /\ status = NoStatus
    /\ cache = NoCache
    /\ auth = "X"
    /\ now = 0
    /\ inv = [i \in Procs |-> IdleInv]
    /\ resp = NoResp
    /\ kills = 0
    /\ starts = 0
    /\ hist = NoHist
    /\ bloom = NoBloom

ApiFrame ==
    UNCHANGED <<status, cache, auth, now, inv, resp, kills, starts, hist,
                bloom>>

\* the response is OK: the records of the page are collected, and the loop
\* goes on with the cursor or the call returns what it has collected
PageOk ==
    /\ query.result = NoResult
    /\ LET items == query.items \o Collected(query.fn, query.pages[query.page])
       IN  query' = IF query.page < Len(query.pages)
                    THEN [query EXCEPT !.items = items, !.page = @ + 1,
                                       !.retries = FETCH_RETRIES]
                    ELSE [query EXCEPT !.items = items,
                                       !.result = Fetched(items)]
    /\ ApiFrame

\* fetchWithRetry: a 429 response or a fetch that throws, with retries left
PageRetried ==
    /\ query.result = NoResult
    /\ query.retries > 0
    /\ query' = [query EXCEPT !.retries = @ - 1]
    /\ ApiFrame

\* fetchWithRetry returns a response that is not OK (a 429 with no retry
\* left, or another status): getUserBlocks returns the blocks collected so
\* far, getFollows throws
PageNotOk ==
    /\ query.result = NoResult
    /\ query' = [query EXCEPT !.result =
                    IF query.fn = "getUserBlocks" THEN Fetched(query.items)
                    ELSE Failed]
    /\ ApiFrame

\* fetch throws with no retry left: the call throws
PageThrows ==
    /\ query.result = NoResult
    /\ query.retries = 0
    /\ query' = [query EXCEPT !.result = Failed]
    /\ ApiFrame

ApiNext == PageOk \/ PageRetried \/ PageNotOk \/ PageThrows

ApiSpec == ApiInit /\ [][ApiNext]_vars

\* C27: a getUserBlocks call that returns a list returns the subjects of
\* every page of the remote, up to the page without cursor
C27_BlocksCompleteOrError ==
    (query # NoQuery /\ query.fn = "getUserBlocks"
        /\ query.result.res = "ok")
    => query.result.blocks = Collected("getUserBlocks", Concat(query.pages, 1))

----------------------------------------------------------------------------
(* HeartbeatSpec: one pass over a follow list of three users, which is two  *)
(* chunks, from its cache load on, with time passing.  hist counts the      *)
(* status writes of the chunk in hand and keeps the time its fetches were   *)
(* started                                                                  *)

HeartbeatFollowLists == {<<"u1", "u2", "u3">>}

HeartbeatInit ==
    /\ cache = NoCache
    /\ status = LockStatus(DefaultStatus, 0)
    /\ auth = "X"
    /\ now = 0
    /\ inv = [i \in Procs |->
                 IF i = 1 THEN [IdleInv EXCEPT !.pc = "load", !.did = "X"]
                 ELSE IdleInv]
    /\ resp = NoResp
    /\ kills = 0
    /\ starts = 1
    /\ hist = [writes |-> 0, since |-> 0]
    /\ bloom = NoBloom
    /\ query = NoQuery

\* the fetches of a chunk are started: by getAllFollows for the first chunk,
\* after the sleep for the others
HeartbeatChunkStart ==
    /\ FetchFollows(1, HeartbeatFollowLists) \/ Sleep(1)
    /\ hist' = [writes |-> 0, since |-> now]
    /\ UNCHANGED <<bloom, query>>

\* an updateSyncStatus({syncedFollows, totalFollows}) of the chunk is written
HeartbeatWrite ==
    /\ \E u \in Users : UserStatusWrite(1, u)
    /\ hist' = [hist EXCEPT !.writes = @ + 1]
    /\ UNCHANGED <<bloom, query>>

\* every other step of the pass
HeartbeatStep ==
    /\ \/ Load(1) \/ ProactiveSave(1) \/ ProactiveRetry(1)
       \/ \E u \in Users : UserFetch(1, u)
       \/ \E u \in Users : UserStatusRead(1, u)
       \/ ChunkDone(1) \/ Save(1) \/ SaveRetry(1)
       \/ FinalRead(1) \/ FinalWrite(1) \/ CatchRead(1) \/ CatchWrite(1)
    /\ UNCHANGED <<hist, bloom, query>>

HeartbeatTick == Tick /\ UNCHANGED <<hist, bloom, query>>

HeartbeatNext ==
    \/ HeartbeatChunkStart
    \/ HeartbeatWrite
    \/ HeartbeatStep
    \/ HeartbeatTick

HeartbeatSpec == HeartbeatInit /\ [][HeartbeatNext]_vars

\* C28: when the fetches of a chunk have all settled, succeeded or failed, a
\* status with the progress counters has been written since the chunk was
\* started, and lastUpdated of the stored status is not older than the start
\* of the chunk
C28_HeartbeatEveryChunk ==
    [][(inv[1].pc = "chunk" /\ inv'[1].pc # "chunk")
        => /\ hist.writes > 0
           /\ status.totalFollows = Len(inv[1].follows)
           /\ status.lastUpdated >= hist.since]_vars

----------------------------------------------------------------------------
(* Proactive eviction *)

\* the cache with its entries removed: the follow list alone
FollowListAlone(c) == [c EXCEPT !.userBlockCaches = << >>]

\* the loaded cache is above 90% of the quota: pruneCache runs and
\* safeSaveBlockCache is called before getAllFollows
ProactiveEvictionRuns ==
    [][(inv[1].pc = "load" /\ NearLimit(LoadCache(cache, inv[1].did)))
        => inv'[1].pc = "proSave"]_vars

\* the proactive step is over and getAllFollows is next: the cache of the
\* pass is no longer above 90% of the quota, if its follow list alone is not
ProactiveHeadroom ==
    [][(inv[1].pc \in {"load", "proSave", "proRetry"}
          /\ inv'[1].pc \in {"proSave", "follows"}
          /\ NearLimit(LoadCache(cache, inv[1].did))
          /\ ~NearLimit(FollowListAlone(inv'[1].mem)))
        => ~NearLimit(inv'[1].mem)]_vars

\* C29: when the loaded cache is above 90% of MAX_CACHE_SIZE_BYTES, eviction
\* runs and the pruned cache is saved before getAllFollows, and after the
\* step the cache is not above the 90% threshold, given that the follow list
\* alone fits
C29_ProactiveEvictionHeadroom ==
    ProactiveEvictionRuns /\ ProactiveHeadroom

----------------------------------------------------------------------------
(* Follow list replacement *)

\* a getAllFollows call that returned returned the concatenation, in order,
\* of every page of the remote (ApiSpec)
GetAllFollowsConcatenates ==
    (query # NoQuery /\ query.fn = "getAllFollows"
        /\ query.result.res = "ok")
    => query.result.blocks = Concat(query.pages, 1)

\* C30: when a pass finishes without an exception and without a failed save,
\* followedUsers of the stored cache is the list getAllFollows returned to
\* the pass, for every follow list including the empty one
C30_FollowListReplaced ==
    [][\A i \in Procs :
          (inv[i].pc = "finW" /\ inv'[i].exit = "complete"
              /\ inv'[i].pc = "idle" /\ ~inv[i].saveFailed)
          => /\ cache' # NoCache
             /\ cache'.followedUsers = inv[i].follows]_vars

----------------------------------------------------------------------------
(* Bounded parallelism and pacing *)

\* the getUserBlocks calls of pass i that have not settled
InFlight(i) == {u \in Users : inv[i].upc[u] = "fetch"}

\* the users of the chunks before chunk k
EarlierUsers(follows, k) ==
    UNION {ChunkUsers(follows, j) : j \in 0..(k - 1)}

\* C31: at most RATE_LIMIT_CONCURRENT getUserBlocks calls of a pass are in
\* flight, all of the chunk in hand while every fetch of the chunks before
\* has settled; the fetches of a chunk are started by getAllFollows (the
\* first chunk) or when the delay after the chunk before is over, and no
\* delay is taken after the last chunk
C31_BoundedParallelism ==
    /\ [](\A i \in Procs :
            /\ Cardinality(InFlight(i)) <= RATE_LIMIT_CONCURRENT
            /\ InFlight(i) # {} =>
                  /\ inv[i].pc = "chunk"
                  /\ InFlight(i) \subseteq
                        ChunkUsers(inv[i].follows, inv[i].chunkIndex)
                  /\ \A u \in EarlierUsers(inv[i].follows, inv[i].chunkIndex) :
                        inv[i].upc[u] = "done"
            /\ inv[i].pc = "sleep" =>
                  inv[i].chunkIndex < NumChunks(inv[i].follows) - 1)
    /\ [][\A i \in Procs :
            (InFlight(i)' \ InFlight(i) # {})
            => \/ inv[i].pc = "follows" /\ inv'[i].chunkIndex = 0
               \/ /\ inv[i].pc = "sleep"
                  /\ inv'[i].chunkIndex = inv[i].chunkIndex + 1
                  /\ \A u \in ChunkUsers(inv[i].follows, inv[i].chunkIndex) :
                        inv[i].upc[u] = "done"]_vars

\* the second chunk of a pass has RATE_LIMIT_CONCURRENT fetches in flight
C31_Witness ==
    /\ inv[1].pc = "chunk"
    /\ inv[1].chunkIndex = 1
    /\ Cardinality(InFlight(1)) = RATE_LIMIT_CONCURRENT

----------------------------------------------------------------------------
(* SetAuthSpec: the SET_AUTH case of handleSyncMessage, split at its awaits *)
(* (getStoredAuth, storeAuth, getBlockCache), each of which can throw into  *)
(* the catch block of the handler.  Up to MaxMessages messages are handled  *)
(* one after the other, with the auth of X, of Y, or none; an auth or none  *)
(* is stored, and the stored cache is none, an empty one, a small one, or   *)
(* one with 100, 101 or 120 followed users and 0, 5 or 6 block entries.     *)
(* The steps of the passes started are left out                             *)

\* a follow list of n users
ManyFollows(n) == [k \in 1..n |-> <<"did", k>>]

\* a cache with n followed users and entries for the first e of them
CacheOf(n, e) ==
    [followedUsers |-> ManyFollows(n),
     userBlockCaches |->
        [d \in {ManyFollows(n)[k] : k \in 1..e} |->
            [did |-> d, blocks |-> <<"p1">>, meta |-> 0]],
     currentUserDid |-> "X"]

SetAuthCaches ==
    {NoCache, CreateEmptyCache("X"), CacheOf(1, 1), CacheOf(3, 0),
     CacheOf(100, 0), CacheOf(100, 4), CacheOf(101, 5), CacheOf(101, 6),
     CacheOf(120, 5), CacheOf(120, 6)}

SetAuthMessages ==
    {[type |-> "SET_AUTH", auth |-> a] : a \in {"", "X", "Y"}}

SetAuthInit ==
    /\ auth \in {NoAuth, "X", "Y"}
    /\ cache \in SetAuthCaches
    /\ status = NoStatus
    /\ now = 0
    /\ inv = [i \in Procs |-> IdleInv]
    /\ resp = NoResp
    /\ kills = 0
    /\ starts = 0
    /\ hist = NoHist
    /\ bloom = NoBloom
    /\ query = NoQuery

SetAuthQuiet ==
    /\ resp' = NoResp
    /\ UNCHANGED <<status, cache, auth, now, inv, kills, starts, hist, bloom>>

\* the message arrives: without an auth it is answered at once
SetAuthReceive(message) ==
    /\ IF query = NoQuery THEN TRUE
       ELSE query.pc = "done" /\ query.n < MaxMessages
    /\ LET q == [message |-> message, pc |-> "getStoredAuth", sent |-> 0,
                 answer |-> NoResp, existingAuth |-> NoAuth,
                 n |-> IF query = NoQuery THEN 1 ELSE query.n + 1]
       IN  query' = IF message.auth = ""
                    THEN [q EXCEPT !.pc = "done", !.sent = 1,
                                   !.answer = [success |-> TRUE]]
                    ELSE q
    /\ SetAuthQuiet

\* an awaited storage call of the case throws: the catch block answers
SetAuthThrows ==
    /\ query # NoQuery
    /\ query.pc \in {"getStoredAuth", "storeAuth", "getBlockCache"}
    /\ query' = Answered([success |-> FALSE, error |-> "storage error"])
    /\ SetAuthQuiet

\* const existingAuth = await getStoredAuth()
SetAuthGetStored ==
    /\ query # NoQuery
    /\ query.pc = "getStoredAuth"
    /\ query' = [query EXCEPT !.pc = "storeAuth", !.existingAuth = auth]
    /\ SetAuthQuiet

\* await storeAuth(message.auth)
SetAuthStore ==
    /\ query # NoQuery
    /\ query.pc = "storeAuth"
    /\ auth' = query.message.auth
    /\ query' = [query EXCEPT !.pc = "getBlockCache"]
    /\ resp' = NoResp
    /\ UNCHANGED <<status, cache, now, inv, kills, starts, hist, bloom>>

\* const cache = await getBlockCache(), the sync test, performFullSync()
\* without await when it says so, sendResponse({success: true})
SetAuthDecide ==
    /\ query # NoQuery
    /\ query.pc = "getBlockCache"
    /\ IF NeedsSync(query.existingAuth, query.message.auth, cache)
       THEN \E i \in Procs : Invoke(i)
       ELSE UNCHANGED <<inv, starts>>
    /\ query' = Answered([success |-> TRUE])
    /\ resp' = NoResp
    /\ UNCHANGED <<status, cache, auth, now, kills, hist, bloom>>

SetAuthNext ==
    \/ \E message \in SetAuthMessages : SetAuthReceive(message)
    \/ SetAuthThrows
    \/ SetAuthGetStored
    \/ SetAuthStore
    \/ SetAuthDecide

SetAuthSpec == SetAuthInit /\ [][SetAuthNext]_vars

\* the sync condition as the specification words it
SyncCondition(existingAuth, newDid, c) ==
    \/ existingAuth = NoAuth
    \/ existingAuth # newDid
    \/ c = NoCache
    \/ Len(c.followedUsers) = 0
    \/ /\ Len(c.followedUsers) > 100
       /\ 100 * Cardinality(DOMAIN c.userBlockCaches)
             < 5 * Len(c.followedUsers)

\* the step that answers a SET_AUTH
SetAuthAnswered ==
    /\ query' # NoQuery
    /\ query'.pc = "done"
    /\ IF query = NoQuery THEN TRUE ELSE query.pc # "done" \/ query'.n # query.n

\* a SET_AUTH that carries an auth and is answered {success: true} has
\* stored the auth, and has started a pass exactly when the condition holds
\* of the auth stored before and the cache read
SetAuthSucceeds ==
    (query'.message.auth # "" /\ query'.answer = [success |-> TRUE])
    => /\ auth' = query'.message.auth
       /\ query.pc = "getBlockCache"
       /\ (inv' # inv) <=>
             SyncCondition(query.existingAuth, query.message.auth, cache)

\* a SET_AUTH without an auth stores nothing and starts no pass
SetAuthWithoutAuth ==
    query'.message.auth = ""
    => /\ auth' = auth
       /\ inv' = inv
       /\ query'.answer = [success |-> TRUE]

\* the statement as written: a SET_AUTH carrying an auth always stores it
\* and answers {success: true}, and starts a pass iff the condition holds
C32_AsStated ==
    [][SetAuthAnswered
        => /\ SetAuthWithoutAuth
           /\ query'.message.auth # "" =>
                 /\ query'.answer = [success |-> TRUE]
                 /\ auth' = query'.message.auth
                 /\ SetAuthSucceeds]_vars

\* C32: a SET_AUTH carrying an auth stores it, starts a pass iff the sync
\* condition holds and answers {success: true}, unless a storage call of the
\* handler throws: then it answers {success: false, error} and starts no
\* pass; a SET_AUTH without an auth stores nothing and starts no pass
C32_SetAuthTrigger ==
    [][SetAuthAnswered
        => /\ SetAuthWithoutAuth
           /\ SetAuthSucceeds
           /\ query'.message.auth # "" =>
                 \/ query'.answer = [success |-> TRUE]
                 \/ /\ query'.answer =
                          [success |-> FALSE, error |-> "storage error"]
                    /\ inv' = inv
                    /\ auth' = auth]_vars

\* a SET_AUTH of the stored identity has found a cache of more than 100
\* follows with fewer entries than 5% and has started a pass
C32_Witness ==
    /\ query # NoQuery
    /\ query.pc = "done"
    /\ query.n = 1
    /\ query.answer = [success |-> TRUE]
    /\ query.message.auth = "X"
    /\ query.existingAuth = "X"
    /\ cache # NoCache
    /\ Len(cache.followedUsers) = 120
    /\ Cardinality(DOMAIN cache.userBlockCaches) = 5
    /\ inv[1].pc = "start"

----------------------------------------------------------------------------
(* TriggerSpec: TRIGGER_SYNC messages handled one after the other, with the *)
(* storage calls of performFullSync failing: a call before the try block    *)
(* that throws rejects the promise of performFullSync, a call inside it      *)
(* that throws enters the catch block, whose own updateSyncStatus can throw  *)
(* in turn.  A lock left by a terminated pass may be stored, fresh at first  *)
(* and stale after a tick.  hist keeps the place of the last rejection       *)

\* sendResponse({success: true})
TriggerAlwaysSucceeds(exit) == [success |-> TRUE]

\* the response of handleMessage: then() when the promise of performFullSync
\* resolves, catch() when it rejects
TriggerResponse(exit) ==
    IF exit = "rejected"
    THEN [success |-> FALSE, error |-> "storage error"]
    ELSE [success |-> TRUE]

TriggerInit ==
    /\ status \in {NoStatus, LockStatus(DefaultStatus, 0)}
    /\ cache = NoCache
    /\ auth \in {NoAuth, "X"}
    /\ now = 0
    /\ inv = [i \in Procs |-> IdleInv]
    /\ resp = NoResp
    /\ kills = 0
    /\ starts = 0
    /\ hist = NoHist
    /\ bloom = NoBloom
    /\ query = NoQuery

\* handleMessage for TRIGGER_SYNC: performFullSync() is called
TriggerReceive ==
    /\ IF query = NoQuery THEN TRUE
       ELSE query.pc = "done" /\ query.n < MaxMessages
    /\ query' = [message |-> [type |-> "TRIGGER_SYNC"], pc |-> "handling",
                 sent |-> 0, answer |-> NoResp,
                 n |-> IF query = NoQuery THEN 1 ELSE query.n + 1]
    /\ Invoke(1)
    /\ hist' = NoHist
    /\ resp' = NoResp
    /\ UNCHANGED <<status, cache, auth, now, kills, bloom>>

TriggerPassStep ==
    Step(1, ShortFollowLists) /\ UNCHANGED <<hist, bloom, query>>

\* getSyncStatus or the updateSyncStatus of the stale-lock reset throws:
\* they are outside the try block, so performFullSync rejects
RejectBeforeTry ==
    /\ inv[1].pc \in {"start", "resetR", "resetW"}
    /\ Set(1, Returned("rejected"))
    /\ hist' = [rejectedAt |-> inv[1].pc]
    /\ resp' = NoResp
    /\ UNCHANGED <<status, cache, auth, now, kills, starts, bloom, query>>

\* a storage call inside the try block throws (getStoredAuth, the lock
\* write, getBlockCache, the final updateSyncStatus): the catch block
\* (the per-user calls have their own catch, the saves are in Save)
ThrowInTry ==
    /\ inv[1].pc \in {"auth", "lockR", "lockW", "load", "finR", "finW"}
    /\ Set(1, [inv[1] EXCEPT !.pc = "catchR", !.errorMsg = "storage error"])
    /\ resp' = NoResp
    /\ UNCHANGED <<status, cache, auth, now, kills, starts, hist, bloom,
                   query>>

\* the updateSyncStatus of the catch block throws: performFullSync rejects
RejectInCatch ==
    /\ inv[1].pc \in {"catchR", "catchW"}
    /\ Set(1, Returned("rejected"))
    /\ hist' = [rejectedAt |-> inv[1].pc]
    /\ resp' = NoResp
    /\ UNCHANGED <<status, cache, auth, now, kills, starts, bloom, query>>

\* the promise of performFullSync has settled: sendResponse
TriggerAnswer ==
    /\ query # NoQuery
    /\ query.pc = "handling"
    /\ inv[1].pc = "idle"
    /\ query' = Answered(TriggerResponse(inv[1].exit))
    /\ resp' = NoResp
    /\ UNCHANGED <<status, cache, auth, now, inv, kills, starts, hist, bloom>>

TriggerTick == Tick /\ UNCHANGED <<hist, bloom, query>>

TriggerNext ==
    \/ TriggerReceive
    \/ TriggerPassStep
    \/ RejectBeforeTry
    \/ ThrowInTry
    \/ RejectInCatch
    \/ TriggerAnswer
    \/ TriggerTick

TriggerSpec == TriggerInit /\ [][TriggerNext]_vars

\* the response is sent when performFullSync has returned, and it is
\* {success: false, error} exactly when performFullSync rejected
AnswerFollowsOutcome ==
    [][(query # NoQuery /\ query.pc = "handling" /\ query'.pc = "done")
        => /\ inv[1].pc = "idle"
           /\ inv[1].exit \in {"skipped", "no auth", "failed", "complete",
                               "rejected"}
           /\ query'.sent = 1
           /\ inv[1].exit = "rejected" =>
                 query'.answer = [success |-> FALSE, error |-> "storage error"]
           /\ inv[1].exit # "rejected" =>
                 query'.answer = [success |-> TRUE]]_vars

\* no response while performFullSync is running
NoEarlyAnswer ==
    [](query # NoQuery /\ inv[1].pc # "idle" => query.sent = 0)

\* the statement as written: performFullSync rejects only from the initial
\* status read or the stale-lock reset
C33_AsStated ==
    /\ AnswerFollowsOutcome
    /\ NoEarlyAnswer
    /\ [][(inv'[1].exit = "rejected" /\ inv[1].pc # "idle")
            => inv[1].pc \in {"start", "resetR", "resetW"}]_vars

\* C33: the response to TRIGGER_SYNC is sent only after performFullSync has
\* returned; it is {success: false, error} exactly when performFullSync
\* rejects, which comes from the initial status read, the stale-lock reset
\* or the updateSyncStatus of the catch block, and {success: true} in every
\* other case: a skipped pass, a missing auth, a failure recorded in errors
C33_TriggerSyncOutcome ==
    /\ AnswerFollowsOutcome
    /\ NoEarlyAnswer
    /\ [][(inv'[1].exit = "rejected" /\ inv[1].pc # "idle")
            => inv[1].pc \in {"start", "resetR", "resetW",
                              "catchR", "catchW"}]_vars

\* a TRIGGER_SYNC answered {success: false} after performFullSync rejected
\* at its stale-lock reset
C33_Witness ==
    /\ query # NoQuery
    /\ query.pc = "done"
    /\ query.answer = [success |-> FALSE, error |-> "storage error"]
    /\ hist # NoHist
    /\ hist.rejectedAt = "resetW"
    /\ inv[1].exit = "rejected"

----------------------------------------------------------------------------
(* FetchSpec: one fetchWithRetry call with the default retries and backoff, *)
(* made by getFollows, getUserBlocks or getProfile.  Every fetch attempt    *)
(* gives a response (200, 404, 429, 500) or throws; query keeps the         *)
(* arguments of the recursive call in hand, the outcomes of the attempts    *)
(* made and the sleeps taken                                                *)

\* backoff = 1e3
FETCH_BACKOFF == 1000

FetchCallers == {"getFollows", "getUserBlocks", "getProfile"}

FetchOutcomes ==
    {[kind |-> "response", status |-> st] : st \in {200, 404, 429, 500}}
        \cup {[kind |-> "throw", status |-> 0]}

\* a backoff that stays the same
ConstantBackoff(backoff) == backoff

\* the backoff of the recursive call
NextBackoff(backoff) == backoff * 2

\* the two retry tests: response.status === 429 && retries > 0 in the try
\* block, retries > 0 in the catch block
Retries(outcome, retries) ==
    /\ retries > 0
    /\ \/ outcome.kind = "throw"
       \/ outcome.kind = "response" /\ outcome.status = 429

FetchInit ==
    /\ query \in {[caller |-> c, pc |-> "fetch", retries |-> FETCH_RETRIES,
                   backoff |-> FETCH_BACKOFF, outcomes |-> << >>,
                   waits |-> << >>, result |-> NoResult] :
                     c \in FetchCallers}
    /\ status = NoStatus
    /\ cache = NoCache
    /\ auth = "X"
    /\ now = 0
    /\ inv = [i \in Procs |-> IdleInv]
    /\ resp = NoResp
    /\ kills = 0
    /\ starts = 0
    /\ hist = NoHist
    /\ bloom = NoBloom

\* await fetch(url, options) settles: retry, return the response or throw
FetchAttempt ==
    /\ query.pc = "fetch"
    /\ \E outcome \in FetchOutcomes :
          query' = IF Retries(outcome, query.retries)
                   THEN [query EXCEPT !.pc = "sleep",
                                      !.outcomes = Append(@, outcome)]
                   ELSE [query EXCEPT !.pc = "done",
                                      !.outcomes = Append(@, outcome),
                                      !.result = outcome]
    /\ ApiFrame

\* await sleep(backoff) is over: fetchWithRetry(url, options, retries - 1,
\* backoff * 2)
FetchSleep ==
    /\ query.pc = "sleep"
    /\ query' = [query EXCEPT !.pc = "fetch",
                              !.waits = Append(@, query.backoff),
                              !.retries = @ - 1,
                              !.backoff = NextBackoff(@)]
    /\ ApiFrame

FetchNext == FetchAttempt \/ FetchSleep

\* a fetch settles and a timer fires
FetchSpec == FetchInit /\ [][FetchNext]_vars /\ WF_vars(FetchNext)

\* an attempt that is retried
Retried(outcome) ==
    \/ outcome.kind = "throw"
    \/ outcome.kind = "response" /\ outcome.status = 429

\* C34: a fetchWithRetry call with the default retries makes at most 4
\* fetch attempts and terminates; every attempt but the last got a 429 or
\* threw, the sleeps are 1000, 2000, 4000 ms in this order; the call returns
\* a non-429 response at the attempt that got it, and a 429 or a thrown
\* error only at the fourth attempt
C34_BoundedRetry ==
    /\ [](/\ Len(query.outcomes) <= FETCH_RETRIES + 1
          /\ query.waits =
                SubSeq(<<1000, 2000, 4000>>, 1, Len(query.waits))
          /\ \A k \in 1..Len(query.outcomes) :
                k < Len(query.outcomes) => Retried(query.outcomes[k])
          /\ query.pc = "done" =>
                /\ Len(query.waits) = Len(query.outcomes) - 1
                /\ query.result = query.outcomes[Len(query.outcomes)]
                /\ Retried(query.result) =>
                      Len(query.outcomes) = FETCH_RETRIES + 1
          /\ query.pc = "fetch" => Len(query.waits) = Len(query.outcomes)
          /\ query.pc = "sleep" =>
                Retried(query.outcomes[Len(query.outcomes)]))
    /\ <>(query.pc = "done")

\* a call that threw at its fourth attempt, after a 429, an error and a 429
C34_Witness ==
    /\ query.pc = "done"
    /\ Len(query.outcomes) = 4
    /\ query.result.kind = "throw"
    /\ query.outcomes[1].status = 429
    /\ query.outcomes[2].kind = "throw"
    /\ query.waits = <<1000, 2000, 4000>>

----------------------------------------------------------------------------
(* Non-quota save failure *)

----------------------------------------------------------------------------
(* SizeSpec: a filter made by createBloomFilter(n, b, k), with b a whole or *)
(* a fractional number of bits per element (a pair numerator, denominator), *)
(* or by bloomFilterFromArray, and up to MaxAdds bloomFilterAdd calls on    *)
(* it.  bloom keeps the arguments of the creation and the count the filter  *)
(* had when it was made                                                     *)

SizeElements == {0, 1, 7, 13}
\* 10 (the default), 9.5 and 1 bits per element
SizeBitsPerElement == {<<10, 1>>, <<19, 2>>, <<1, 1>>}
SizeNumHashes == {1, 3, 7}

\* a createBloomFilter without the lower bound of 64 bits
CreateBloomFilterUnfloored(expectedElements, bitsPerElement, numHashes) ==
    LET size == (expectedElements * bitsPerElement[1] + bitsPerElement[2] - 1)
                    \div bitsPerElement[2]
        byteSize == (size + 7) \div 8
    IN  [bits |-> Uint8ArrayToBase64([k \in 1..byteSize |-> 0]),
         size |-> size, numHashes |-> numHashes, count |-> 0]

\* createBloomFilter(expectedElements, bitsPerElement, numHashes):
\* Math.max(64, Math.ceil(expectedElements * bitsPerElement)) bits,
\* Math.ceil(size / 8) zero bytes
CreateBloomFilterWith(expectedElements, bitsPerElement, numHashes) ==
    LET ceil == (expectedElements * bitsPerElement[1] + bitsPerElement[2] - 1)
                    \div bitsPerElement[2]
        size == IF ceil > 64 THEN ceil ELSE 64
        byteSize == (size + 7) \div 8
    IN  [bits |-> Uint8ArrayToBase64([k \in 1..byteSize |-> 0]),
         size |-> size, numHashes |-> numHashes, count |-> 0]

SizeInit ==
    /\ bloom \in
          {[filter |-> CreateBloomFilterWith(n, b, k), n |-> n, b |-> b,
            k |-> k, made |-> 0, adds |-> 0, last |-> ""] :
               n \in SizeElements, b \in SizeBitsPerElement,
               k \in SizeNumHashes}
          \cup
          {[filter |-> BloomFilterFromArray(items), n |-> Len(items),
            b |-> <<DEFAULT_BITS_PER_ELEMENT, 1>>, k |-> DEFAULT_NUM_HASHES,
            made |-> Len(items), adds |-> 0, last |-> ""] :
               items \in FilterLists}
    /\ status = NoStatus
    /\ cache = NoCache
    /\ auth = NoAuth
    /\ now = 0
    /\ inv = [i \in Procs |-> IdleInv]
    /\ resp = NoResp
    /\ kills = 0
    /\ starts = 0
    /\ hist = NoHist
    /\ query = NoQuery

\* a bloomFilterAdd call on the filter
SizedAdd(item) ==
    /\ bloom.adds < MaxAdds
    /\ bloom' = [bloom EXCEPT !.filter = BloomFilterAdd(@, item),
                              !.adds = @ + 1, !.last = item]
    /\ UNCHANGED <<status, cache, auth, now, inv, resp, kills, starts, hist,
                   query>>

SizeNext == \E item \in BloomItems : SizedAdd(item)

SizeSpec == SizeInit /\ [][SizeNext]_vars

\* the bit positions set in a byte array
SetPositions(bytes) ==
    {p \in 0..(8 * Len(bytes) - 1) : BitIsSet(bytes, p)}

\* C36: the size of a filter is the least whole number of bits that is at
\* least 64 and at least n * b, its byte array has ceil(size / 8) bytes, all
\* zero at creation, and its count is the number of adds made (the number of
\* items for bloomFilterFromArray); every bloomFilterAdd leaves size,
\* numHashes and the length of the byte array as they are, clears no bit,
\* sets bits at positions below size only, and adds 1 to count
C36_FilterSizeFixed ==
    /\ [](bloom # NoBloom =>
            LET f == bloom.filter
                bytes == Base64ToUint8Array(f.bits)
            IN  /\ f.size >= 64
                /\ f.size * bloom.b[2] >= bloom.n * bloom.b[1]
                /\ f.size > 64 =>
                      (f.size - 1) * bloom.b[2] < bloom.n * bloom.b[1]
                /\ f.numHashes = bloom.k
                /\ Len(bytes) * 8 >= f.size
                /\ (Len(bytes) - 1) * 8 < f.size
                /\ \A p \in SetPositions(bytes) : p < f.size
                /\ f.count = bloom.made + bloom.adds
                /\ (bloom.made = 0 /\ bloom.adds = 0) =>
                      /\ f.count = 0
                      /\ SetPositions(bytes) = {})
    /\ [][LET old == Base64ToUint8Array(bloom.filter.bits)
              new == Base64ToUint8Array(bloom'.filter.bits)
          IN  /\ bloom'.filter.size = bloom.filter.size
              /\ bloom'.filter.numHashes = bloom.filter.numHashes
              /\ Len(new) = Len(old)
              /\ bloom'.filter.count = bloom.filter.count + 1
              /\ SetPositions(old) \subseteq SetPositions(new)
              /\ Cardinality(SetPositions(new) \ SetPositions(old))
                    <= bloom.filter.numHashes]_vars

\* a filter of 67 bits (7 elements at 9.5 bits) in 9 bytes, after two adds
\* that set bits in its last byte
C36_Witness ==
    /\ bloom # NoBloom
    /\ bloom.filter.size = 67
    /\ bloom.adds = 2
    /\ bloom.filter.count = 2
    /\ Len(Base64ToUint8Array(bloom.filter.bits)) = 9
    /\ \E p \in SetPositions(Base64ToUint8Array(bloom.filter.bits)) : p >= 64

----------------------------------------------------------------------------
(* Progress accounting *)

\* the step is a status write of pass i from its lock write on
WritesStatus(i) ==
    /\ Steps(i)
    /\ \/ inv[i].pc \in {"lockW", "finW", "catchW"}
       \/ /\ inv[i].pc = "chunk"
          /\ \E u \in Users : inv[i].upc[u] = "stW" /\ inv'[i].upc[u] = "done"

\* C37: in every status a pass stores from its lock write on, syncedFollows
\* is at most the length of the follow list the pass has enumerated, and in
\* the status of the finalization syncedFollows plus the number of errors
\* equals totalFollows, which is the length of the follow list
C37_ProgressAccounting ==
    [][\A i \in Procs :
          WritesStatus(i) =>
             /\ status'.syncedFollows <= Len(inv[i].follows)
             /\ inv[i].pc = "finW" =>
                   /\ status'.totalFollows = Len(inv[i].follows)
                   /\ status'.syncedFollows + Len(status'.errors)
                         = status'.totalFollows]_vars

----------------------------------------------------------------------------
(* Orphan entries *)

\* C38: when a pass returns from its finalization having saved its cache
\* with no failed write, every key of userBlockCaches of the stored cache is
\* a user of its followedUsers
C38_NoOrphanEntries ==
    [][\A i \in Procs :
          (inv[i].pc = "finW" /\ inv'[i].exit = "complete"
              /\ inv'[i].pc = "idle" /\ inv[i].saved = "true"
              /\ ~inv[i].saveFailed)
          => /\ cache' # NoCache
             /\ StoredEntries(cache') \subseteq
                   {cache'.followedUsers[k] :
                       k \in 1..Len(cache'.followedUsers)}]_vars

----------------------------------------------------------------------------
(* UndoSpec: ClearSpec with a record, in hist, of what the passes in flight *)
(* held in memory when CLEAR_CACHE stored the empty cache: for each slot    *)
(* the follow list its pass had got from getAllFollows and the users whose  *)
(* block entry was in its in-memory cache.  The record of a slot is dropped *)
(* when its pass returns                                                    *)

\* what pass i holds in memory
HeldBy(i) ==
    [follows |-> inv[i].follows,
     entries |-> IF inv[i].mem = NoCache THEN {}
                 ELSE DOMAIN inv[i].mem.userBlockCaches]

NothingHeld == [follows |-> << >>, entries |-> {}]

\* CLEAR_CACHE: saveBlockCache(createEmptyCache(''))
UndoClearSave ==
    /\ query = NoQuery
    /\ cache' = CreateEmptyCache("")
    /\ query' = [pc |-> "statusR", current |-> NoStatus, started |-> 0]
    /\ hist' = [i \in Procs |-> HeldBy(i)]
    /\ resp' = NoResp
    /\ UNCHANGED <<status, auth, now, inv, kills, starts, bloom>>

\* a step of pass i
UndoStep(i) ==
    /\ Step(i, ShortFollowLists)
    /\ hist' = IF hist # NoHist /\ inv'[i].pc = "idle"
               THEN [hist EXCEPT ![i] = NothingHeld]
               ELSE hist
    /\ UNCHANGED <<bloom, query>>

UndoNext ==
    \/ \E i \in Procs :
          /\ starts < MaxOtherPasses
          /\ IF query = NoQuery THEN TRUE ELSE query.pc # "done"
          /\ TriggerSync(i)
          /\ UNCHANGED <<hist, bloom, query>>
    \/ \E i \in Procs : UndoStep(i)
    \/ UndoClearSave
    \/ ClearStatusRead
    \/ ClearStatusWrite
    \/ ClearStart
    \/ Tick /\ UNCHANGED <<hist, bloom, query>>

UndoSpec == ClearInit /\ [][UndoNext]_vars

\* C39: after CLEAR_CACHE has stored the empty cache, no write of the cache
\* by a pass that was in flight then stores a block entry or a follow list
\* the pass had fetched before
C39_ClearNotUndone ==
    [][\A i \in Procs :
          (hist # NoHist /\ Steps(i) /\ cache' # cache)
          => /\ StoredEntries(cache') \cap hist[i].entries = {}
             /\ hist[i].follows # << >> =>
                   cache'.followedUsers # hist[i].follows]_vars

----------------------------------------------------------------------------
(* AlarmSpec: the listeners of the service worker.  The module is loaded    *)
(* each time the worker starts, which runs initializeExtension once; the    *)
(* onInstalled and onStartup events, when the browser delivers them to the  *)
(* worker, run it again.  hist keeps the number of closures added to        *)
(* chrome.alarms.onAlarm in the worker now running and the events           *)
(* delivered; query keeps the alarms dispatched, with the number of         *)
(* performFullSync() calls each one made                                    *)

MaxAlarms == 3

ALARM_NAME == "performFullSync"

AlarmNames == {ALARM_NAME, "otherAlarm"}

\* the state of a worker whose module has just been loaded: the
\* initializeExtension() call at the end of background.ts
Loaded(events) == [alarmListeners |-> 1, events |-> events]

\* initializeExtension: chrome.alarms.onAlarm.addListener of a new closure
InitializeExtension(h, event) ==
    [alarmListeners |-> h.alarmListeners + 1,
     events |-> h.events \cup {event}]

\* the calls of performFullSync one alarm makes: every closure registered
\* is called and tests alarm.name === ALARM_NAME
AlarmCalls(h, name) == IF name = ALARM_NAME THEN h.alarmListeners ELSE 0

AlarmInit ==
    /\ hist = Loaded({})
    /\ query = << >>
    /\ status = NoStatus
    /\ cache = NoCache
    /\ auth \in {NoAuth, "X"}
    /\ now = 0
    /\ inv = [i \in Procs |-> IdleInv]
    /\ resp = NoResp
    /\ kills = 0
    /\ starts = 0
    /\ bloom = NoBloom

AlarmFrame ==
    UNCHANGED <<status, cache, auth, now, inv, resp, starts, bloom>>

\* chrome.runtime.onInstalled or onStartup is delivered to the worker
ExtensionEvent(event) ==
    /\ event \notin hist.events
    /\ hist' = InitializeExtension(hist, event)
    /\ UNCHANGED <<query, kills>>
    /\ AlarmFrame

\* the worker is terminated and started again by a later event: the module
\* is loaded anew, the listeners of the old worker are gone
WorkerRestart ==
    /\ kills < MaxKills
    /\ kills' = kills + 1
    /\ hist' = Loaded(hist.events)
    /\ UNCHANGED query
    /\ AlarmFrame

\* an alarm fires
AlarmFires(name) ==
    /\ Len(query) < MaxAlarms
    /\ query' = Append(query, [name |-> name,
                               calls |-> AlarmCalls(hist, name)])
    /\ UNCHANGED <<hist, kills>>
    /\ AlarmFrame

AlarmNext ==
    \/ \E event \in {"onInstalled", "onStartup"} : ExtensionEvent(event)
    \/ WorkerRestart
    \/ \E name \in AlarmNames : AlarmFires(name)

AlarmSpec == AlarmInit /\ [][AlarmNext]_vars

\* C40: an alarm named 'performFullSync' makes exactly one performFullSync
\* call and an alarm of another name makes none, whichever of module load,
\* onInstalled and onStartup have run initializeExtension
C40_OnePassPerAlarm ==
    \A k \in 1..Len(query) :
        query[k].calls = IF query[k].name = ALARM_NAME THEN 1 ELSE 0

====
